---- MODULE Spec2Model ----
(***************************************************************************)
(* Staged pipeline engine of manga_translator (MangaTranslator.translate,  *)
(* MangaTranslator._translate) and its task sources: the synchronous REST  *)
(* facade (MangaTranslatorAPI.err_handling, get_file, PostSchema), the     *)
(* directory walk (MangaTranslator.translate_path), the websocket worker   *)
(* (MangaTranslatorWS.listen) and the polling worker (MangaTranslatorWeb:  *)
(* sync_state and the manual-translation wait).                            *)
(*                                                                         *)
(* One engine action is one stage of _translate: the check of the previous *)
(* stage's outcome, the progress report of the stage and its dispatch.     *)
(* External model services (prepare / dispatch) either return or raise.    *)
(***************************************************************************)
EXTENDS Integers, Sequences, FiniteSets, TLC

VARIABLES
    pc,              \* position of the running translate() call
    image,           \* the PIL image handed to translate()
    params,          \* the params dict handed to translate()
    ignore_errors,   \* self.ignore_errors
    progress_hooks,  \* self._progress_hooks
    ph_index,        \* _report_progress: position of the loop of line 348 in the hooks
    deliveries,      \* _report_progress: hook calls begun and ended by the running call
    ctx,             \* the Context built by translate()
    attempts,        \* local variable attempts of translate()
    exc,             \* exception in flight / raised out of translate()
    log,             \* progress events and dispatches of the current attempt
    runs,            \* number of times _translate was entered in this call
    prepares,        \* number of times the prepare_* sequence was started
    failures,        \* number of prepare/dispatch exceptions raised in this call
    prep_failures,   \* number of those raised by a prepare_* call
    error_events,    \* number of 'error' / 'error-lang' events broadcast
    swallowed,       \* number of exceptions logged and swallowed (line 233)
    self_params,     \* SyncServer: self.params; SocketWorker: translation_params of listen
    endpoint,        \* SyncServer: route of the request being served
    req,             \* SyncServer: the request
    reply,           \* SyncServer: the response returned by err_handling
    handlers,        \* SyncServer: the locals of each of the requests served concurrently
    heap,            \* SyncServer: the Context objects that translate() has constructed
    queries,         \* _run_text_translation: the texts handed to dispatch_translation
    translated_sentences,  \* _run_text_translation: what dispatch_translation returned
    zipped_regions,  \* _run_text_translation: ctx.text_regions after the loop of line 442
    ocr_regions,     \* _run_ocr: local variable text_regions, what dispatch_ocr returned
    tree,            \* FileWalker: the files of the source tree, in walk order
    dest_files,      \* FileWalker: the files that exist in the destination tree
    existing,        \* FileWalker: dest_files when the running translate_path began
    file_index,      \* FileWalker: position of the loop of line 132 in tree
    translated_count,  \* FileWalker: local variable translated_count
    opened,          \* FileWalker: files opened by _translate_file in this pass
    written,         \* FileWalker, PollWorker: files saved by _translate_file in this pass / task
    passes,          \* FileWalker: number of translate_path calls made
    websocket,       \* SocketWorker: state of the connection of the running iteration
    connections,     \* SocketWorker: number of connections established
    task,            \* SocketWorker: local variable task, the new_task message
    task_id,         \* SocketWorker, PollWorker: self._task_id
    tasks_read,      \* SocketWorker, PollWorker: number of tasks received
    output,          \* SocketWorker: local variable output of the current task
    sent,            \* SocketWorker: finish_task frames sent
    ws_errors,       \* SocketWorker: exceptions logged at line 673
    msg,             \* SocketWorker: local variable msg, the kind of the frame read last
    statuses,        \* SocketWorker: status frames sent since the last new_task frame
    hook_call,       \* arguments state, finished of the running _report_progress / sync_state
    finished_flag,   \* PollWorker: local variable finished of sync_state after line 505
    posts,           \* PollWorker: task-update posts made by the running sync_state
    now,             \* PollWorker: time.time(), in seconds since the wait began
    wait_until,      \* PollWorker: local variable wait_until
    ret              \* PollWorker: kind of the last reply to get-translation-result

vars == <<pc, image, params, ignore_errors, progress_hooks, ph_index, deliveries,
          ctx, attempts, exc,
          log, runs, prepares, failures, prep_failures, error_events, swallowed,
          self_params, endpoint, req, reply, handlers, heap,
          queries, translated_sentences, zipped_regions, ocr_regions,
          tree, dest_files, existing, file_index, translated_count, opened, written,
          passes,
          websocket, connections, task, task_id, tasks_read, output, sent, ws_errors,
          msg, statuses,
          hook_call, finished_flag, posts, now, wait_until, ret>>

hook_vars == <<progress_hooks, ph_index, deliveries>>

call_vars == <<image, params, ignore_errors, hook_vars>>

counters == <<runs, prepares, failures, prep_failures, error_events, swallowed>>

serve_vars == <<handlers, heap>>

api_vars == <<self_params, endpoint, req, reply, serve_vars>>

translation_vars == <<queries, translated_sentences, zipped_regions, ocr_regions>>

walk_vars == <<tree, dest_files, existing, file_index, translated_count, opened, written,
               passes>>

socket_vars == <<websocket, connections, task, task_id, tasks_read, output, sent, ws_errors,
                 msg>>

ws_vars == <<socket_vars, statuses>>

web_vars == <<hook_call, finished_flag, posts, now, wait_until, ret>>

task_vars == <<walk_vars, ws_vars, web_vars>>

-----------------------------------------------------------------------------
(* Bounds of the model *)

MaxRetries == 1
MaxUnlimitedAttempts == 2
MaxRegions == 2
MaxFiles == 3
MaxPasses == 2
MaxConnections == 2
MaxTasks == 2
MaxPosts == 3
MaxPolls == 3

None == "None"

-----------------------------------------------------------------------------
(* Progress events and hooks *)

\* entries of log: a progress event broadcast to the hooks, the dispatch of a
\* stage to its model service, the return of that dispatch
Ev(state, finished) == [k |-> "event", s |-> state, f |-> finished]
Call(stage) == [k |-> "dispatch", s |-> stage, f |-> FALSE]
Ret(stage) == [k |-> "return", s |-> stage, f |-> FALSE]

logger_hook == [kind |-> "logger", state |-> "", any |-> FALSE]

\* A hook that raises TranslationInterrupt on the event named state; with
\* any = FALSE only on non-terminal events (the condition of line 744).
interrupt_hook(state, any) == [kind |-> "interrupt", state |-> state, any |-> any]

\* The hook that MangaTranslatorWS.listen registers at line 621: sync_state
\* (lines 615-619) sends one status frame over the connection
ws_sync_state_hook == [kind |-> "ws_sync_state", state |-> "", any |-> FALSE]

\* websocket.send (line 619) raises on a connection that is closed
send_raises == websocket = "closed"

hook_raises(ph, state, finished) ==
    \/ /\ ph.kind = "interrupt"
       /\ ph.state # ""
       /\ ph.state = state
       /\ (ph.any \/ ~finished)
    \/ /\ ph.kind = "ws_sync_state"
       /\ send_raises

\* _report_progress awaits the hooks in order; the first one that raises ends it.
report_progress_raises(hooks, state, finished) ==
    \E i \in DOMAIN hooks : hook_raises(hooks[i], state, finished)

\* the exception that leaves _report_progress: that of the first hook that raises
hook_exception(hooks, state, finished) ==
    LET i == CHOOSE k \in DOMAIN hooks :
                 /\ hook_raises(hooks[k], state, finished)
                 /\ \A j \in 1..(k - 1) : ~hook_raises(hooks[j], state, finished)
    IN  IF hooks[i].kind = "interrupt" THEN "TranslationInterrupt"
        ELSE "ConnectionClosedError"

\* a status message that carries no task id
Status_of_no_task(id, state) == [kind |-> "status", id |-> 0, status |-> state]

\* a status message (lines 616-618)
Status(id, state) == [kind |-> "status", id |-> id, status |-> state]

\* the events broadcast in this step, in order
reported ==
    IF Len(log') > Len(log) /\ SubSeq(log', 1, Len(log)) = log
    THEN SelectSeq(SubSeq(log', Len(log) + 1, Len(log')), LAMBDA e : e.k = "event")
    ELSE <<>>

\* _report_progress (lines 347-349) with sync_state among the hooks: every
\* event broadcast reaches sync_state unless a hook registered before it
\* raises, and sync_state sends a status frame with self._task_id unless the
\* send raises
report_progress_sends ==
    IF \A i \in DOMAIN progress_hooks : progress_hooks[i] # ws_sync_state_hook
    THEN statuses' = statuses
    ELSE LET i == CHOOSE k \in DOMAIN progress_hooks : progress_hooks[k] = ws_sync_state_hook
             reaches(e) == \A j \in 1..i : ~hook_raises(progress_hooks[j], e.s, e.f)
             frames == SelectSeq(reported, reaches)
         IN  statuses' = statuses \o [k \in DOMAIN frames |-> Status(task_id, frames[k].s)]

-----------------------------------------------------------------------------
(* Context, regions and the region filters *)

Retries == -1 .. MaxRetries

\* decoded PIL images
Images == {"image", "page"}

\* the images whose lettering includes short, numeric and URL texts
Pages == {"page"}

Texts == {"hello", "42"}
Translations == {"Hello", ""}

\* the texts dispatch_ocr may recognize on an image (line 423)
OcrTexts(img) ==
    IF img \in Pages THEN Texts \cup {"", "a", "http://a.b", "forty-two"} ELSE Texts

\* the sentences dispatch_translation may return for a text (line 439)
Sentences(text) ==
    IF text = "forty-two" THEN {"42", "Forty-two"} ELSE Translations

\* str.upper and str.lower on the sample values
upper(a) ==
    CASE a = "s" -> "S"           [] a = "eng" -> "ENG"       [] a = "deepl" -> "DEEPL"
      [] a = "ctd" -> "CTD"       [] a = "h" -> "H"           [] a = "lama" -> "LAMA"
      [] a = "48px" -> "48PX"     [] a = "nosuch" -> "NOSUCH" [] a = "diagonal" -> "DIAGONAL"
      [] a = "Hello" -> "HELLO"   [] a = "hello" -> "HELLO"
      [] a = "Forty-two" -> "FORTY-TWO"  [] a = "forty-two" -> "FORTY-TWO"
      [] OTHER -> a
lower(a) ==
    CASE a = "S" -> "s"           [] a = "ENG" -> "eng"       [] a = "DEEPL" -> "deepl"
      [] a = "CTD" -> "ctd"       [] a = "H" -> "h"           [] a = "LAMA" -> "lama"
      [] a = "48PX" -> "48px"     [] a = "Q" -> "q"           [] a = "XXX" -> "xxx"
      [] a = "Hello" -> "hello"   [] a = "HELLO" -> "hello"
      [] a = "Forty-two" -> "forty-two"  [] a = "FORTY-TWO" -> "forty-two"
      [] OTHER -> a

\* str.isnumeric / utils.count_valuable_text / utils.is_url on the sample texts
isnumeric(t) == t \in {"42"}
count_valuable_text(t) ==
    CASE t \in {"hello", "Hello", "HELLO"} -> 5
      [] t \in {"42"} -> 2
      [] t \in {"forty-two", "Forty-two", "FORTY-TWO"} -> 8
      [] t \in {"http://a.b"} -> 6
      [] t \in {"a"} -> 1
      [] OTHER -> 0
is_url(t) == t \in {"http://a.b"}
re_search(pattern, t) == pattern # None /\ pattern = t

TextBlock(i) == [id |-> i, text |-> "", translation |-> None, target_lang |-> None]

\* the value None of the attribute text_regions (regions are numbered from 1)
NoneRegions == <<TextBlock(0)>>

RECURSIVE SelectSeq2(_, _)
\* the order-preserving sub-sequence of s of the elements in keep
SelectSeq2(s, keep) ==
    IF s = <<>> THEN <<>>
    ELSE IF Head(s) \in keep THEN <<Head(s)>> \o SelectSeq2(Tail(s), keep)
    ELSE SelectSeq2(Tail(s), keep)

Range(s) == {s[i] : i \in DOMAIN s}

\* a post-OCR filter without the test for URLs
ocr_dropped_keeps_urls(c, region) ==
    \/ isnumeric(region.text)
    \/ (c.filter_text # None /\ re_search(c.filter_text, region.text))
    \/ count_valuable_text(region.text) <= 1

\* _run_ocr, lines 425-436: the post-OCR filter
ocr_dropped(c, region) ==
    \/ isnumeric(region.text)
    \/ (c.filter_text # None /\ re_search(c.filter_text, region.text))
    \/ count_valuable_text(region.text) <= 1
    \/ is_url(region.text)

filter_ocr(c, regions) ==
    SelectSeq2(regions, {r \in Range(regions) : ~ocr_dropped(c, r)})

\* _run_text_translation, lines 453-462: the post-translation filter
trans_dropped(c, region) ==
    \/ isnumeric(region.translation)
    \/ (c.filter_trans # None /\ re_search(c.filter_trans, region.translation))
    \/ count_valuable_text(region.translation) <= 1

\* a filter that also leaves out the first region it would keep
filter_trans_skips_first(c, regions) ==
    LET kept == SelectSeq2(regions, {r \in Range(regions) : ~trans_dropped(c, r)})
    IN  IF kept = <<>> THEN kept ELSE Tail(kept)

filter_trans(c, regions) ==
    SelectSeq2(regions, {r \in Range(regions) : ~trans_dropped(c, r)})

\* Context(**params) after _preprocess_params, with input and result set
\* (lines 189-204); the stage outputs are not attributes of the Context yet.
Context(img, p) ==
    [ input |-> img, result |-> None,
      upscaled |-> None, text_regions |-> NoneRegions, mask_raw |-> None, mask |-> None,
      img_inpainted |-> None, img_rendered |-> None,
      retries |-> p.retries, upscale_ratio |-> p.upscale_ratio,
      revert_upscaling |-> p.revert_upscaling,
      target_lang |-> p.target_lang,
      manual |-> p.manual,
      uppercase |-> p.uppercase, lowercase |-> p.lowercase,
      filter_text |-> p.filter_text, filter_trans |-> p.filter_trans ]

NoParams == [retries |-> 0, upscale_ratio |-> 0, revert_upscaling |-> FALSE,
             target_lang |-> None, uppercase |-> FALSE, lowercase |-> FALSE,
             filter_text |-> None, filter_trans |-> None, manual |-> FALSE]

NoContext == Context(None, NoParams)

\* a test for None in place of the truth value: an empty list passes it
not_regions_is_none(regions) == regions = NoneRegions

\* Python truth value of ctx.text_regions (lines 296, 302, 309)
not_regions(regions) == regions = NoneRegions \/ regions = <<>>

\* an attempt loop bounded one too far
loop_condition_off_by_one(retries, n) == retries = -1 \/ n <= retries + 1

\* while-condition of the attempt loop (line 207)
loop_condition(retries, n) == retries = -1 \/ n < retries + 1

\* the re-raise condition of the handler (line 230)
must_raise(ignore, retries, n) == ~ignore /\ ~(retries = -1 \/ n < retries)

\* a try statement without the except TranslationInterrupt clause
handler_of_no_interrupt_clause(e) == "handle"

\* the except clause that takes an exception raised in the try block
\* (lines 223-225)
handler_of(e) == IF e = "TranslationInterrupt" THEN "break" ELSE "handle"

\* one error event for every exception
error_event_always_error(e) == "error"

\* name of the error event broadcast for an exception (lines 226-229)
error_event(e) == IF e = "LanguageUnsupportedException" THEN "error-lang" ELSE "error"

\* A model service may raise as long as the attempt budget is finite, or,
\* with retries = -1, while fewer than MaxUnlimitedAttempts attempts failed.
may_fail == ctx.retries # -1 \/ attempts < MaxUnlimitedAttempts

-----------------------------------------------------------------------------
(* Control transfers inside translate() *)

\* a hook raised while event l[Len(l)] was broadcast
interrupted(l) ==
    /\ pc' = "except"
    /\ LET i == CHOOSE k \in DOMAIN l :
                    l[k].k = "event" /\ \A j \in (k + 1)..Len(l) : l[j].k # "event"
       IN  exc' = hook_exception(progress_hooks, l[i].s, l[i].f)
    /\ log' = l
    /\ UNCHANGED <<ctx, attempts, counters>>

\* a dispatch raised e
raised(e, l) ==
    /\ pc' = "except"
    /\ exc' = e
    /\ log' = l
    /\ failures' = failures + 1
    /\ UNCHANGED <<ctx, attempts, runs, prepares, prep_failures, error_events, swallowed>>

\* a dispatch returned and left the Context as c
returned(c, l, next) ==
    /\ pc' = next
    /\ ctx' = c
    /\ log' = l
    /\ UNCHANGED <<attempts, exc, counters>>

\* a hook's interruption noticed only once the stage has been dispatched
stage_step_interrupt_late(state, stage, outcomes, excs, next) ==
    LET l1 == Append(log, Ev(state, FALSE))
        l2 == Append(l1, Call(stage))
    IN  IF report_progress_raises(progress_hooks, state, FALSE)
        THEN interrupted(l2)
        ELSE \/ \E c \in outcomes : returned(c, Append(l2, Ret(stage)), next)
             \/ \E e \in excs : may_fail /\ raised(e, l2)

\* a stage dispatched before its progress event is broadcast
stage_step_dispatch_first(state, stage, outcomes, excs, next) ==
    LET l1 == Append(log, Call(stage))
        l2 == Append(l1, Ev(state, FALSE))
    IN  IF report_progress_raises(progress_hooks, state, FALSE)
        THEN interrupted(l2)
        ELSE \/ \E c \in outcomes : returned(c, Append(l2, Ret(stage)), next)
             \/ \E e \in excs : may_fail /\ raised(e, l2)

\* await self._report_progress(state); <dispatch of stage>
stage_step(state, stage, outcomes, excs, next) ==
    LET l1 == Append(log, Ev(state, FALSE))
        l2 == Append(l1, Call(stage))
    IN  IF report_progress_raises(progress_hooks, state, FALSE)
        THEN interrupted(l1)
        ELSE \/ \E c \in outcomes : returned(c, Append(l2, Ret(stage)), next)
             \/ \E e \in excs : may_fail /\ raised(e, l2)

\* an empty outcome handled as a failure of the stage
early_return_as_failure(state) ==
    raised("Exception", Append(log, Ev(state, TRUE)))

\* await self._report_progress(state, True); return ctx
early_return(state) ==
    LET l1 == Append(log, Ev(state, TRUE))
    IN  IF report_progress_raises(progress_hooks, state, TRUE)
        THEN interrupted(l1)
        ELSE returned(ctx, l1, "returned")

-----------------------------------------------------------------------------
(* MangaTranslator.translate *)

\* lines 189-206
translate_begin ==
    /\ pc = "idle"
    /\ pc' = "loop"
    /\ ctx' = Context(image, params)
    /\ attempts' = 0
    /\ UNCHANGED <<exc, log, counters, call_vars, api_vars, translation_vars, task_vars>>

\* line 207, and line 236 when the loop condition fails
translate_loop ==
    /\ pc = "loop"
    /\ IF loop_condition(ctx.retries, attempts)
       THEN /\ pc' = "try"
            /\ log' = <<>>
            /\ queries' = <<>>
            /\ translated_sentences' = <<>>
            /\ zipped_regions' = <<>>
            /\ ocr_regions' = <<>>
       ELSE /\ pc' = "returned"
            /\ UNCHANGED <<log, translation_vars>>
    /\ UNCHANGED <<ctx, attempts, exc, counters, call_vars, api_vars, task_vars>>

\* lines 211-222: the prepare_* calls, then the call of _translate
translate_try ==
    /\ pc = "try"
    /\ prepares' = prepares + 1
    /\ \/ /\ pc' = "upscale"
          /\ runs' = runs + 1
          /\ UNCHANGED <<exc, failures, prep_failures>>
       \/ /\ may_fail
          /\ pc' = "except"
          /\ exc' = "Exception"
          /\ failures' = failures + 1
          /\ prep_failures' = prep_failures + 1
          /\ runs' = runs
    /\ UNCHANGED <<ctx, attempts, log, error_events, swallowed, call_vars, api_vars, translation_vars, task_vars>>

\* lines 223-236: the except clauses of the attempt loop
translate_except ==
    /\ pc = "except"
    /\ IF handler_of(exc) = "break"
       THEN /\ pc' = "returned"
            /\ UNCHANGED <<exc, log, attempts, error_events, swallowed>>
       ELSE /\ log' = Append(log, Ev(error_event(exc), TRUE))
            /\ error_events' = error_events + 1
            /\ IF report_progress_raises(progress_hooks, error_event(exc), TRUE)
               THEN /\ pc' = "raised"
                    /\ exc' = hook_exception(progress_hooks, error_event(exc), TRUE)
                    /\ UNCHANGED <<attempts, swallowed>>
               ELSE IF must_raise(ignore_errors, ctx.retries, attempts)
               THEN /\ pc' = "raised"
                    /\ UNCHANGED <<exc, attempts, swallowed>>
               ELSE /\ pc' = "loop"
                    /\ exc' = None
                    /\ swallowed' = swallowed + 1
                    /\ attempts' = attempts + 1
    /\ UNCHANGED <<ctx, runs, prepares, failures, prep_failures, call_vars, api_vars, translation_vars, walk_vars, socket_vars, web_vars>>
    /\ report_progress_sends

-----------------------------------------------------------------------------
(* MangaTranslator._translate, one action per stage *)

\* lines 281-287; upscaling and load_image raise on an input that is no image
run_upscaling ==
    /\ pc = "upscale"
    /\ IF ctx.input \notin Images
       THEN raised("Exception", log)
       ELSE IF ctx.upscale_ratio # 0
       THEN stage_step("upscaling", "upscaling",
                       {[ctx EXCEPT !.upscaled = "upscaled"]}, {"Exception"}, "detect")
       ELSE returned([ctx EXCEPT !.upscaled = ctx.input], log, "detect")
    /\ UNCHANGED <<call_vars, api_vars, translation_vars, walk_vars, socket_vars, web_vars>>
    /\ report_progress_sends

\* what dispatch_detection may return: regions, raw mask and optional mask
detections ==
    { [ctx EXCEPT !.text_regions = [i \in 1..n |-> TextBlock(i)],
                  !.mask_raw = "mask_raw",
                  !.mask = m] : n \in 0..MaxRegions, m \in {None, "mask"} }

\* lines 289-290
run_detection ==
    /\ pc = "detect"
    /\ stage_step("detection", "detection", detections, {"Exception"}, "ocr")
    /\ UNCHANGED <<call_vars, api_vars, translation_vars, walk_vars, socket_vars, web_vars>>
    /\ report_progress_sends

\* what dispatch_ocr may return (line 423): the regions with their texts
ocr_results ==
    { [i \in DOMAIN ctx.text_regions |-> [ctx.text_regions[i] EXCEPT !.text = t[i]]]
      : t \in [DOMAIN ctx.text_regions -> OcrTexts(ctx.input)] }

\* lines 296-301, with _run_ocr (lines 422-436)
run_ocr ==
    /\ pc = "ocr"
    /\ IF not_regions(ctx.text_regions)
       THEN early_return("skip-no-regions") /\ UNCHANGED translation_vars
       ELSE IF report_progress_raises(progress_hooks, "ocr", FALSE)
       THEN interrupted(Append(log, Ev("ocr", FALSE))) /\ UNCHANGED translation_vars
       ELSE \/ \E text_regions \in ocr_results :
                  /\ returned([ctx EXCEPT !.text_regions = filter_ocr(ctx, text_regions)],
                              Append(Append(Append(log, Ev("ocr", FALSE)), Call("ocr")),
                                     Ret("ocr")),
                              "translate")
                  /\ ocr_regions' = text_regions
                  /\ UNCHANGED <<queries, translated_sentences, zipped_regions>>
            \/ /\ may_fail
               /\ raised("Exception", Append(Append(log, Ev("ocr", FALSE)), Call("ocr")))
               /\ UNCHANGED translation_vars
    /\ UNCHANGED <<call_vars, api_vars, walk_vars, socket_vars, web_vars>>
    /\ report_progress_sends

\* [region.get_text() for region in ctx.text_regions] (line 439)
get_texts(regions) == [i \in DOMAIN regions |-> regions[i].text]

\* what dispatch_translation may return for a list of texts: one sentence
\* per text
translations_of(texts) ==
    { s \in [DOMAIN texts -> UNION {Sentences(texts[i]) : i \in DOMAIN texts}] :
         \A i \in DOMAIN texts : s[i] \in Sentences(texts[i]) }

\* lines 443-446
cased(c, translation) ==
    IF c.uppercase THEN upper(translation)
    ELSE IF c.lowercase THEN upper(translation)
    ELSE translation

\* a pairing of the regions with the sentences in reverse order
zip_translations_reversed(c, sentences) ==
    [i \in DOMAIN c.text_regions |->
        IF i <= Len(sentences)
        THEN [c.text_regions[i] EXCEPT
                 !.translation = cased(c, sentences[Len(sentences) + 1 - i]),
                 !.target_lang = c.target_lang]
        ELSE c.text_regions[i]]

\* lines 442-450: zip pairs region i with sentence i and stops at the shorter
\* of the two lists
zip_translations(c, sentences) ==
    [i \in DOMAIN c.text_regions |->
        IF i <= Len(sentences)
        THEN [c.text_regions[i] EXCEPT
                 !.translation = cased(c, sentences[i]),
                 !.target_lang = c.target_lang]
        ELSE c.text_regions[i]]

\* _run_text_translation (lines 439-462) called at line 307
text_translation(sentences, next) ==
    LET l == Append(Append(Append(log, Ev("translating", FALSE)),
                           Call("translation")), Ret("translation"))
        zipped == zip_translations(ctx, sentences)
    IN  /\ returned([ctx EXCEPT !.text_regions = filter_trans(ctx, zipped)], l, next)
        /\ queries' = get_texts(ctx.text_regions)
        /\ translated_sentences' = sentences
        /\ zipped_regions' = zipped
        /\ UNCHANGED ocr_regions

\* lines 302-307
run_text_translation ==
    /\ pc = "translate"
    /\ IF not_regions(ctx.text_regions)
       THEN early_return("skip-no-text") /\ UNCHANGED translation_vars
       ELSE IF report_progress_raises(progress_hooks, "translating", FALSE)
       THEN interrupted(Append(log, Ev("translating", FALSE))) /\ UNCHANGED translation_vars
       ELSE \/ \E sentences \in translations_of(get_texts(ctx.text_regions)) :
                  text_translation(sentences, "mask")
            \/ \E e \in {"Exception", "LanguageUnsupportedException"} :
                  /\ may_fail
                  /\ raised(e, Append(Append(log, Ev("translating", FALSE)),
                                      Call("translation")))
                  /\ queries' = get_texts(ctx.text_regions)
                  /\ UNCHANGED <<translated_sentences, zipped_regions, ocr_regions>>
    /\ UNCHANGED <<call_vars, api_vars, walk_vars, socket_vars, web_vars>>
    /\ report_progress_sends

\* lines 309-316
run_mask_refinement ==
    /\ pc = "mask"
    /\ IF not_regions(ctx.text_regions)
       THEN early_return("error-translating")
       ELSE IF ctx.mask = None
       THEN stage_step("mask-generation", "mask_refinement",
                       {[ctx EXCEPT !.mask = "refined_mask"]}, {"Exception"}, "inpaint")
       ELSE returned(ctx, log, "inpaint")
    /\ UNCHANGED <<call_vars, api_vars, translation_vars, walk_vars, socket_vars, web_vars>>
    /\ report_progress_sends

\* lines 323-324
run_inpainting ==
    /\ pc = "inpaint"
    /\ stage_step("inpainting", "inpainting",
                  {[ctx EXCEPT !.img_inpainted = "inpainted"]}, {"Exception"}, "render")
    /\ UNCHANGED <<call_vars, api_vars, translation_vars, walk_vars, socket_vars, web_vars>>
    /\ report_progress_sends

\* lines 329-330
run_text_rendering ==
    /\ pc = "render"
    /\ stage_step("rendering", "rendering",
                  {[ctx EXCEPT !.img_rendered = "rendered"]}, {"Exception"}, "finish")
    /\ UNCHANGED <<call_vars, api_vars, translation_vars, walk_vars, socket_vars, web_vars>>
    /\ report_progress_sends

\* lines 332-339
finish ==
    /\ pc = "finish"
    /\ LET l1 == Append(log, Ev("finished", TRUE))
           c1 == [ctx EXCEPT !.result = "dumped"]
           l2 == Append(l1, Ev("downscaling", FALSE))
       IN  IF report_progress_raises(progress_hooks, "finished", TRUE)
           THEN interrupted(l1)
           ELSE IF ~ctx.revert_upscaling
           THEN returned(c1, l1, "returned")
           ELSE IF report_progress_raises(progress_hooks, "downscaling", FALSE)
           THEN /\ pc' = "except"
                /\ exc' = hook_exception(progress_hooks, "downscaling", FALSE)
                /\ log' = l2
                /\ ctx' = c1
                /\ UNCHANGED <<attempts, counters>>
           ELSE returned([c1 EXCEPT !.result = "resized"], l2, "returned")
    /\ UNCHANGED <<call_vars, api_vars, translation_vars, walk_vars, socket_vars, web_vars>>
    /\ report_progress_sends

Engine ==
    \/ translate_begin
    \/ translate_loop
    \/ translate_try
    \/ translate_except
    \/ run_upscaling
    \/ run_detection
    \/ run_ocr
    \/ run_text_translation
    \/ run_mask_refinement
    \/ run_inpainting
    \/ run_text_rendering
    \/ finish


-----------------------------------------------------------------------------
(* MangaTranslatorAPI: requests, PostSchema, get_file, err_handling *)

\* 8000 of line 733
MaxSide == 8000

Endpoints == {"/get_text", "/translate", "/inpaint_translate"}

SelectorFields ==
    {"size", "translator", "target_language", "detector", "direction", "inpainter", "ocr"}

\* option sets: size and direction from lines 843 and 850, samples of the
\* registries TRANSLATORS, VALID_LANGUAGES, DETECTORS, INPAINTERS, OCRS
OptionSet(field) ==
    CASE field = "size" -> {"S", "M", "L", "X"}
      [] field = "translator" -> {"google", "deepl"}
      [] field = "target_language" -> {"ENG", "CHS"}
      [] field = "detector" -> {"default", "ctd"}
      [] field = "direction" -> {"auto", "h", "v"}
      [] field = "inpainter" -> {"lama", "none"}
      [] field = "ocr" -> {"48px", "32px"}

\* request values tried for a field: a member of the option set, the same in
\* the other letter case, and a value outside the set
SampleValues(field) ==
    CASE field = "size" -> {"S", "s", "Q"}
      [] field = "translator" -> {"deepl", "DEEPL", "nosuch"}
      [] field = "target_language" -> {"ENG", "eng", "XXX"}
      [] field = "detector" -> {"ctd", "CTD", "nosuch"}
      [] field = "direction" -> {"h", "H", "diagonal"}
      [] field = "inpainter" -> {"lama", "LAMA", "nosuch"}
      [] field = "ocr" -> {"48px", "48PX", "nosuch"}

\* the value of the validate= lambda of a selector field (lines 843-853)
validate(field, a) ==
    IF field \in {"size", "target_language"}
    THEN upper(a) \notin OptionSet(field)
    ELSE lower(a) \notin OptionSet(field)

\* schema.load(d) (line 790): a field whose validator returns False raises
\* ValidationError (marshmallow 3, the release line this code was written for)
load_raises(selectors) ==
    \E f \in SelectorFields : selectors[f] # None /\ ~validate(f, selectors[f])

NoSelectors == [f \in SelectorFields |-> None]

\* bytes of an upload, a base64 string or a fetched URL: an image of w x h
\* pixels, or bytes that are no image
Contents ==
    { [decodable |-> TRUE, w |-> d[1], h |-> d[2]] :
        d \in {<<MaxSide, MaxSide>>, <<MaxSide, MaxSide + 1>>,
               <<MaxSide - 1, MaxSide + 1>>, <<MaxSide + 1, MaxSide + 1>>} }
    \cup {[decodable |-> FALSE, w |-> 1, h |-> 1]}

\* at most one selector field is set in a request
SelectorSets ==
    {NoSelectors} \cup
    UNION { { [NoSelectors EXCEPT ![f] = v] : v \in SampleValues(f) } : f \in SelectorFields }

NoContent == [decodable |-> FALSE, w |-> 0, h |-> 0]

\* url_status is the status of the fetch of url; content is what the first
\* supplied input yields
Requests ==
    { r \in [ kind : {"request"},
              content_type : {"application/json", "multipart/form-data", "text/plain"},
              image : BOOLEAN, base64Images : BOOLEAN, url : BOOLEAN,
              url_status : {0, 200, 404},
              content : Contents \cup {NoContent},
              selectors : SelectorSets ] :
        /\ (r.url_status = 0) = ~r.url
        /\ (r.content = NoContent) = (~r.image /\ ~r.base64Images /\ ~r.url) }

NoRequest ==
    [kind |-> "none", content_type |-> "", image |-> FALSE, base64Images |-> FALSE,
     url |-> FALSE, url_status |-> 0, content |-> NoContent, selectors |-> NoSelectors]

Reply(http, status, error) == [http |-> http, status |-> status, error |-> error]
NoReply == Reply(0, 0, "")

\* a size check on the sides instead of the area
too_large_by_side(w, h) == w > MaxSide \/ h > MaxSide

\* line 733
too_large(w, h) == w * h > MaxSide * MaxSide

\* lines 729-735
open_image(content) ==
    IF ~content.decodable THEN [kind |-> "raise", value |-> "UnidentifiedImageError"]
    ELSE IF too_large(content.w, content.h)
    THEN [kind |-> "raise", value |-> "ValidationError"]
    ELSE [kind |-> "return", value |-> "image"]

\* lines 711-735
get_file(r) ==
    IF r.image THEN open_image(r.content)
    ELSE IF r.base64Images THEN open_image(r.content)
    ELSE IF r.url
    THEN IF r.url_status = 200 THEN open_image(r.content)
         ELSE [kind |-> "return", value |-> "json_response"]
    ELSE [kind |-> "raise", value |-> "ValidationError"]

\* dict(self.params, **data) of line 800
merged(defaults, selectors) ==
    [k \in DOMAIN defaults |->
        IF k \in SelectorFields /\ selectors[k] # None THEN selectors[k] ELSE defaults[k]]

\* lines 783-810 up to the call of func: the reply, or the call of translate
err_handling(r, defaults) ==
    IF r.content_type \notin {"application/json", "multipart/form-data"}
    THEN [kind |-> "reply", reply |-> Reply(415, 415, "Wrong content type")]
    ELSE IF load_raises(r.selectors)
    THEN [kind |-> "reply", reply |-> Reply(422, 422, "Input invalid")]
    ELSE IF ~r.image /\ ~r.base64Images /\ ~r.url
    THEN [kind |-> "reply", reply |-> Reply(200, 422, "Missing input")]
    ELSE LET fil == get_file(r)
         IN  IF fil.kind = "raise"
             THEN IF fil.value = "ValidationError"
                  THEN [kind |-> "reply", reply |-> Reply(422, 422, "Input invalid")]
                  ELSE [kind |-> "reply", reply |-> Reply(500, 500, fil.value)]
             ELSE [kind |-> "call", img |-> fil.value,
                   params |-> merged(defaults, r.selectors)]

\* a route handler (lines 747-760) and err_handling up to the call of
\* translate through texts_exec / translate_exec / inpaint_translate_exec
api_request ==
    /\ pc = "waiting"
    /\ \E ep \in Endpoints, r \in Requests :
          LET out == err_handling(r, self_params)
          IN  /\ endpoint' = ep
              /\ req' = r
              /\ IF out.kind = "call"
                 THEN /\ pc' = "idle"
                      /\ image' = out.img
                      /\ params' = out.params
                      /\ reply' = reply
                 ELSE /\ pc' = "replied"
                      /\ reply' = out.reply
                      /\ UNCHANGED <<image, params>>
    /\ UNCHANGED <<ignore_errors, hook_vars, self_params, ctx, attempts, exc, log,
                   counters, translation_vars, task_vars, serve_vars>>

\* line 801 and format_translate (lines 813-840): the reply built from the
\* Context; an exception of translate or of format_translate is not caught
api_reply ==
    /\ endpoint # None
    /\ pc \in {"returned", "raised"}
    /\ pc' = "replied"
    /\ reply' =
          IF pc = "raised" THEN Reply(500, 500, exc)
          ELSE IF ctx.text_regions = NoneRegions THEN Reply(500, 500, "TypeError")
          ELSE IF ctx.text_regions # <<>> /\ ctx.img_inpainted = None
          THEN Reply(500, 500, "TypeError")
          ELSE Reply(200, 200, "")
    /\ UNCHANGED <<call_vars, self_params, endpoint, req, ctx, attempts, exc, log, counters,
                   translation_vars, task_vars, serve_vars>>

-----------------------------------------------------------------------------
(* FileWalker: MangaTranslator.translate_path on a directory and           *)
(* _translate_file                                                         *)

\* a file of the tree is an image, a file Image.open cannot read, or a file
\* named '.thumb'; a file is named by its position in the walk and its output
\* path (line 136) carries the same name
FileKinds == {"image", "not_image", "thumb"}

\* source trees of MaxFiles files of which at most one is no image
Trees ==
    { t \in [1..MaxFiles -> FileKinds] :
        Cardinality({i \in 1..MaxFiles : t[i] # "image"}) <= 1 }

\* a test that never finds the output
path_exists_never(f) == FALSE

\* os.path.exists(output_dest), line 137
path_exists(f) == f \in dest_files

\* a call of translate_path on the directory (lines 119-127); it can be
\* called again after it returned or raised
translate_path_begin ==
    /\ pc \in {"path", "path_returned", "path_raised"}
    /\ passes < MaxPasses
    /\ pc' = "walk"
    /\ passes' = passes + 1
    /\ existing' = dest_files
    /\ file_index' = 1
    /\ translated_count' = 0
    /\ opened' = <<>>
    /\ written' = <<>>
    /\ UNCHANGED <<tree, dest_files, call_vars, api_vars, translation_vars,
                   ctx, attempts, exc, log, counters, ws_vars, web_vars>>

\* one iteration of the loop of line 132 up to the call of translate
\* (lines 132-141 and 148-153)
walk_next ==
    /\ pc = "walk"
    /\ file_index <= Len(tree)
    /\ IF tree[file_index] = "thumb" \/ path_exists(file_index)
       THEN /\ pc' = "walk"
            /\ file_index' = file_index + 1
            /\ UNCHANGED <<translated_count, opened, image, exc, log, counters,
                           translation_vars>>
       ELSE /\ opened' = Append(opened, file_index)
            /\ IF tree[file_index] # "image"
               THEN /\ pc' = "walk"
                    /\ file_index' = file_index + 1
                    /\ translated_count' = translated_count + 1
                    /\ UNCHANGED <<image, exc, log, counters, translation_vars>>
               ELSE /\ pc' = "idle"
                    /\ image' = "image"
                    /\ exc' = None
                    /\ log' = <<>>
                    /\ runs' = 0 /\ prepares' = 0 /\ failures' = 0
                    /\ prep_failures' = 0 /\ error_events' = 0 /\ swallowed' = 0
                    /\ queries' = <<>>
                    /\ translated_sentences' = <<>>
                    /\ zipped_regions' = <<>>
                    /\ ocr_regions' = <<>>
                    /\ UNCHANGED <<file_index, translated_count>>
    /\ UNCHANGED <<tree, dest_files, existing, written, passes, params, ignore_errors,
                   hook_vars, api_vars, ctx, attempts, ws_vars, web_vars>>

\* lines 142-145: the walk is over
translate_path_return ==
    /\ pc = "walk"
    /\ file_index > Len(tree)
    /\ pc' = "path_returned"
    /\ UNCHANGED <<walk_vars, call_vars, api_vars, translation_vars,
                   ctx, attempts, exc, log, counters, ws_vars, web_vars>>

\* the image _translate_file saves (lines 155-161)
file_result(c) ==
    IF c.result # None THEN c.result
    ELSE IF c.text_regions # NoneRegions THEN c.input
    ELSE None

\* lines 153-164 and line 141: translate returned or raised; nothing in
\* _translate_file or translate_path catches what it raises
translate_file_end ==
    /\ pc \in {"returned", "raised"}
    /\ IF pc = "raised"
       THEN /\ pc' = "path_raised"
            /\ UNCHANGED <<dest_files, file_index, translated_count, written, exc, log>>
       ELSE IF file_result(ctx) = None
       THEN /\ pc' = "walk"
            /\ file_index' = file_index + 1
            /\ translated_count' = translated_count + 1
            /\ UNCHANGED <<dest_files, written, exc, log>>
       ELSE /\ dest_files' = dest_files \cup {file_index}
            /\ written' = Append(written, file_index)
            /\ log' = Append(log, Ev("saved", TRUE))
            /\ IF report_progress_raises(progress_hooks, "saved", TRUE)
               THEN /\ pc' = "path_raised"
                    /\ exc' = "TranslationInterrupt"
                    /\ UNCHANGED <<file_index, translated_count>>
               ELSE /\ pc' = "walk"
                    /\ file_index' = file_index + 1
                    /\ translated_count' = translated_count + 1
                    /\ exc' = exc
    /\ UNCHANGED <<tree, existing, opened, passes, call_vars, api_vars, translation_vars,
                   ctx, attempts, counters, ws_vars, web_vars>>

FileWalker ==
    \/ translate_path_begin
    \/ walk_next
    \/ translate_path_return
    \/ translate_file_end

\* no translate_path call was made
NoWalk ==
    /\ tree = <<>>
    /\ dest_files = {}
    /\ existing = {}
    /\ file_index = 0
    /\ translated_count = 0
    /\ opened = <<>>
    /\ written = <<>>
    /\ passes = 0

-----------------------------------------------------------------------------
(* SocketWorker: MangaTranslatorWS.listen                                  *)

\* the variants of the envelope of a frame; WhichOneof (line 630) names the
\* variant that a frame carries
MessageKinds == {"new_task", "finish_task", "status"}

\* new_task messages: the coordinator numbers its tasks; source_image holds
\* the bytes of an image of w x h pixels, or bytes that are no image
Sizes == {[w |-> 3, h |-> 2], [w |-> 2, h |-> 3]}
Languages == {"ENG", "JPN"}
Tasks(n) == [id : {n}, decodable : BOOLEAN, size : Sizes, target_language : Languages]
NoTask == [id |-> 0, decodable |-> FALSE, size |-> [w |-> 0, h |-> 0],
           target_language |-> None]

\* lines 638-649: the params of a task. The language of the task is stored
\* under the key 'target_language'; every key that the task does not set
\* takes the value of translation_params, 'target_lang' among them
task_params(t, defaults) ==
    [k \in DOMAIN defaults \cup {"target_language"} |->
        IF k = "target_language" THEN t.target_language ELSE defaults[k]]

\* a finish_task message: the task id and, in translation_mask, the PNG
\* bytes of an image
FinishTask(id, img) == [kind |-> "finish_task", id |-> id, translation_mask |-> img]

\* Image.fromarray(np.zeros((height, width, 4), dtype=np.uint8)): an RGBA
\* image of all-zero pixels
zeros_image(height, width) == [w |-> width, h |-> height, pixels |-> "zeros"]

\* the image dumped by the pipeline for a source image of the given size
result_image(size, result) == [w |-> size.w, h |-> size.h, pixels |-> result]

\* the exception handler of line 672: it is outside the loop of line 627, so
\* the iteration of the loop of line 623 ends and the next one connects anew
ws_except(e) ==
    /\ ws_errors' = Append(ws_errors, e)
    /\ pc' = "connect"

\* an iteration of `async for websocket in websockets.connect(...)`
\* (line 623): the previous connection is closed and a new one is established
ws_connect ==
    /\ pc = "connect"
    /\ connections < MaxConnections
    /\ connections' = connections + 1
    /\ websocket' = "open"
    /\ pc' = "recv"
    /\ UNCHANGED <<task, task_id, tasks_read, output, sent, ws_errors, msg, statuses,
                   walk_vars, call_vars, api_vars, translation_vars, ctx, attempts, exc,
                   log, counters, web_vars>>

\* the connection is lost while the worker waits for a frame (line 627): the
\* loop ends, with ConnectionClosedError or, after a close handshake, silently
ws_closed ==
    /\ pc = "recv"
    /\ websocket' = "closed"
    /\ \/ ws_except("ConnectionClosedError")
       \/ pc' = "connect" /\ ws_errors' = ws_errors
    /\ UNCHANGED <<connections, task, task_id, tasks_read, output, sent, msg, statuses,
                   walk_vars, call_vars, api_vars, translation_vars, ctx, attempts, exc,
                   log, counters, web_vars>>

\* the connection is lost while translate runs (line 652): the worker notices
\* it at its next send
ws_drop ==
    /\ pc \notin {"connect", "recv", "returned", "raised"}
    /\ websocket = "open"
    /\ websocket' = "closed"
    /\ UNCHANGED <<pc, connections, task, task_id, tasks_read, output, sent, ws_errors,
                   msg, statuses, walk_vars, call_vars, api_vars, translation_vars, ctx,
                   attempts, exc, log, counters, web_vars>>

\* a frame that carries another variant than new_task is read (lines 627-630):
\* the test of line 630 fails and the loop waits for the next frame
ws_skip ==
    /\ pc = "recv"
    /\ \E kind \in MessageKinds \ {"new_task"} : msg' = kind
    /\ UNCHANGED <<pc, websocket, connections, task, task_id, tasks_read, output, sent,
                   ws_errors, statuses, walk_vars, call_vars, api_vars, translation_vars,
                   ctx, attempts, exc, log, counters, web_vars>>

\* a new_task frame is read (lines 627-652) up to the call of translate
ws_recv ==
    /\ pc = "recv"
    /\ tasks_read < MaxTasks
    /\ tasks_read' = tasks_read + 1
    /\ msg' = "new_task"
    /\ statuses' = <<>>
    /\ \E t \in Tasks(tasks_read + 1) :
          /\ task' = t
          /\ task_id' = t.id
          /\ params' = task_params(t, self_params)
          /\ output' = "unset"
          /\ IF ~t.decodable
             THEN /\ ws_except("UnidentifiedImageError")
                  /\ UNCHANGED <<image, exc, log, counters, translation_vars>>
             ELSE /\ pc' = "idle"
                  /\ image' = "image"
                  /\ exc' = None
                  /\ log' = <<>>
                  /\ runs' = 0 /\ prepares' = 0 /\ failures' = 0
                  /\ prep_failures' = 0 /\ error_events' = 0 /\ swallowed' = 0
                  /\ queries' = <<>>
                  /\ translated_sentences' = <<>>
                  /\ zipped_regions' = <<>>
                  /\ ocr_regions' = <<>>
                  /\ ws_errors' = ws_errors
    /\ UNCHANGED <<websocket, connections, sent, walk_vars, ignore_errors,
                   hook_vars, api_vars, ctx, attempts, web_vars>>

\* lines 652-670: translate returned or raised
ws_finish ==
    /\ pc \in {"returned", "raised"}
    /\ IF pc = "raised"
       THEN /\ ws_except(exc)
            /\ UNCHANGED <<websocket, task_id, output, sent>>
       ELSE /\ output' = ctx.result
            /\ IF ctx.result = None
               THEN \* line 655 reads output.height of None
                    /\ ws_except("AttributeError")
                    /\ UNCHANGED <<websocket, task_id, sent>>
               ELSE \/ /\ ~send_raises
                       /\ sent' = Append(sent, FinishTask(task_id,
                                                    result_image(task.size, ctx.result)))
                       /\ task_id' = 0
                       /\ pc' = "recv"
                       /\ UNCHANGED <<websocket, ws_errors>>
                    \/ /\ websocket' = "closed"
                       /\ ws_except("ConnectionClosedError")
                       /\ UNCHANGED <<task_id, sent>>
    /\ UNCHANGED <<connections, task, tasks_read, msg, statuses, walk_vars, call_vars,
                   api_vars, translation_vars, ctx, attempts, exc, log, counters, web_vars>>

SocketWorker ==
    \/ ws_connect
    \/ ws_closed
    \/ ws_drop
    \/ ws_skip
    \/ ws_recv
    \/ ws_finish

\* no SocketWorker is listening; 0 stands for the value None of self._task_id
NoSocket ==
    /\ websocket = "none"
    /\ connections = 0
    /\ task = NoTask
    /\ task_id = 0
    /\ tasks_read = 0
    /\ output = "unset"
    /\ sent = <<>>
    /\ ws_errors = <<>>
    /\ msg = None
    /\ statuses = <<>>

-----------------------------------------------------------------------------
(* The progress events of translate() and _translate()                     *)

NonTerminalEvents ==
    {"upscaling", "detection", "ocr", "translating", "mask-generation",
     "inpainting", "rendering", "downscaling"}

TerminalEvents ==
    {"skip-no-regions", "skip-no-text", "error-translating", "finished",
     "error", "error-lang"}

-----------------------------------------------------------------------------
(* PollWorker: MangaTranslatorWeb.listen, its sync_state hook and the      *)
(* manual-translation wait of MangaTranslatorWeb._run_text_translation     *)

\* 3600 of line 579, in seconds
WaitSeconds == 3600

\* time is counted in steps of WaitSeconds / MaxPolls seconds; one iteration
\* of the wait loop (a request and the sleep of line 594) takes one or two
PollStep == WaitSeconds \div MaxPolls

\* the hook registered at line 522; it catches every exception of its posts
web_sync_state_hook == [kind |-> "web_sync_state", state |-> "", any |-> FALSE]

\* the calls _report_progress makes: state and terminal flag (lines 164,
\* 227-229, 282-336)
ProgressCalls ==
    [state : NonTerminalEvents, finished : {FALSE}]
    \cup [state : TerminalEvents \cup {"saved"}, finished : {TRUE}]

NoCall == [state |-> "", finished |-> FALSE]

\* a flag sent as the hook received it
sent_flag_as_received(state, finished) == finished

\* line 505
sent_flag(state, finished) == finished /\ ~(state = "finished")

\* the json of line 508-513 (without the nonce) and whether the post returned
Post(id, state, finished, ok) ==
    [task_id |-> id, state |-> state, finished |-> finished, ok |-> ok]

\* _report_progress calls sync_state(state, finished) (lines 503-505)
sync_state_call ==
    /\ pc = "hook_idle"
    /\ \E c \in ProgressCalls :
          /\ hook_call' = c
          /\ finished_flag' = sent_flag(c.state, c.finished)
    /\ posts' = <<>>
    /\ pc' = "hook_loop"
    /\ UNCHANGED <<now, wait_until, ret, call_vars, api_vars, translation_vars, walk_vars,
                   ws_vars, ctx, attempts, exc, log, counters>>

\* one iteration of the loop of line 506: the post returns, or raises and
\* is repeated when the flag sent is set
sync_state_post ==
    /\ pc = "hook_loop"
    /\ \/ /\ posts' = Append(posts, Post(task_id, hook_call.state, finished_flag, TRUE))
          /\ pc' = "hook_idle"
       \/ /\ Len(posts) < MaxPosts
          /\ posts' = Append(posts, Post(task_id, hook_call.state, finished_flag, FALSE))
          /\ pc' = IF finished_flag THEN "hook_loop" ELSE "hook_idle"
    /\ UNCHANGED <<hook_call, finished_flag, now, wait_until, ret, call_vars, api_vars,
                   translation_vars, walk_vars, ws_vars, ctx, attempts, exc, log, counters>>

\* a plain str where a TextBlock is expected (line 593 returns the list of
\* translated strings)
StrItem(tr) == [id |-> -1, text |-> tr, translation |-> None, target_lang |-> None]

\* a wait that never gives up
wait_expired_never(t, until) == FALSE

\* the negation of the loop condition of line 580
wait_expired(t, until) == ~(t < until)

\* _run_text_translation returned value (line 307); None and the list of
\* translated strings take the place of the filtered regions
manual_return(value) ==
    /\ returned([ctx EXCEPT !.text_regions = value], Append(log, Ret("translation")), "mask")
    /\ UNCHANGED <<now, wait_until>>

\* lines 302-307 with the override of lines 570-579: the request for a manual
\* translation is posted and the wait begins; time is counted from here
web_run_text_translation ==
    /\ pc = "translate"
    /\ IF not_regions(ctx.text_regions)
       THEN early_return("skip-no-text") /\ UNCHANGED <<translation_vars, now, wait_until, ret>>
       ELSE IF report_progress_raises(progress_hooks, "translating", FALSE)
       THEN /\ interrupted(Append(log, Ev("translating", FALSE)))
            /\ UNCHANGED <<translation_vars, now, wait_until, ret>>
       ELSE IF ~ctx.manual
       THEN /\ \/ \E sentences \in translations_of(get_texts(ctx.text_regions)) :
                     text_translation(sentences, "mask")
               \/ \E e \in {"Exception", "LanguageUnsupportedException"} :
                     /\ may_fail
                     /\ raised(e, Append(Append(log, Ev("translating", FALSE)),
                                         Call("translation")))
                     /\ queries' = get_texts(ctx.text_regions)
                     /\ UNCHANGED <<translated_sentences, zipped_regions, ocr_regions>>
            /\ UNCHANGED <<now, wait_until, ret>>
       ELSE /\ queries' = get_texts(ctx.text_regions)
            /\ UNCHANGED <<translated_sentences, zipped_regions, ocr_regions>>
            /\ ret' = "none"
            /\ \/ /\ pc' = "manual_wait"
                  /\ log' = Append(Append(log, Ev("translating", FALSE)), Call("translation"))
                  /\ now' = 0
                  /\ wait_until' = WaitSeconds
                  /\ UNCHANGED <<ctx, attempts, exc, counters>>
               \/ /\ may_fail
                  /\ raised("Exception", Append(Append(log, Ev("translating", FALSE)),
                                                Call("translation")))
                  /\ UNCHANGED <<now, wait_until>>
    /\ UNCHANGED <<call_vars, api_vars, walk_vars, ws_vars, hook_call, finished_flag, posts>>

\* the test of line 580 and one iteration of the loop (lines 581-594), or
\* the implicit return of None when the loop is left
manual_poll ==
    /\ pc = "manual_wait"
    /\ IF wait_expired(now, wait_until)
       THEN manual_return(NoneRegions) /\ ret' = ret
       ELSE \/ /\ ret' = "error"
               /\ manual_return(NoneRegions)
            \/ /\ ret' = "result"
               /\ \E tr \in translations_of(get_texts(ctx.text_regions)) :
                     manual_return([i \in DOMAIN tr |-> StrItem(tr[i])])
            \/ /\ ret' = "pending"
               /\ now < WaitSeconds + 3 * PollStep
               /\ \E d \in {PollStep, 2 * PollStep} : now' = now + d
               /\ UNCHANGED <<pc, ctx, log, attempts, exc, counters, wait_until>>
            \/ /\ may_fail
               /\ raised("Exception", log)
               /\ UNCHANGED <<now, wait_until, ret>>
    /\ UNCHANGED <<call_vars, api_vars, translation_vars, walk_vars, ws_vars,
                   hook_call, finished_flag, posts>>

\* translate() of a PollWorker
EngineWeb ==
    \/ translate_begin
    \/ translate_loop
    \/ translate_try
    \/ translate_except
    \/ run_upscaling
    \/ run_detection
    \/ run_ocr
    \/ web_run_text_translation
    \/ manual_poll
    \/ run_mask_refinement
    \/ run_inpainting
    \/ run_text_rendering
    \/ finish

\* no PollWorker hook is running and no manual translation is awaited
NoPoll ==
    /\ hook_call = NoCall
    /\ finished_flag = FALSE
    /\ posts = <<>>
    /\ now = 0
    /\ wait_until = 0
    /\ ret = "none"

-----------------------------------------------------------------------------
(* A direct call of translate(image, params) on a translator with an       *)
(* optional extra progress hook                                            *)

Hooks ==
    {interrupt_hook(s, FALSE) : s \in NonTerminalEvents}
    \cup {interrupt_hook(s, TRUE) : s \in TerminalEvents}

\* the retry and upscaling options with the text options at their defaults,
\* and the text options with one attempt and no upscaling
ParamSets ==
    [retries : Retries, upscale_ratio : {0, 2},
     revert_upscaling : BOOLEAN, target_lang : {"ENG"},
     uppercase : {FALSE}, lowercase : {FALSE},
     filter_text : {None}, filter_trans : {None}, manual : {FALSE}]
    \cup
    [retries : {0}, upscale_ratio : {0},
     revert_upscaling : {FALSE}, target_lang : {"ENG"},
     uppercase : BOOLEAN, lowercase : BOOLEAN,
     filter_text : {None, "hello"}, filter_trans : {None, "Hello"}, manual : {FALSE}]

Init ==
    /\ pc = "idle"
    /\ image \in Images \ Pages
    /\ params \in ParamSets
    /\ ignore_errors \in BOOLEAN
    /\ progress_hooks \in {<<logger_hook>>} \cup {<<logger_hook, h>> : h \in Hooks}
    /\ ph_index = 0 /\ deliveries = <<>>
    /\ ctx = NoContext
    /\ attempts = 0
    /\ exc = None
    /\ log = <<>>
    /\ runs = 0 /\ prepares = 0 /\ failures = 0 /\ prep_failures = 0
    /\ error_events = 0 /\ swallowed = 0
    /\ self_params = NoParams
    /\ endpoint = None
    /\ req = NoRequest
    /\ reply = NoReply
    /\ handlers = <<>> /\ heap = <<>>
    /\ queries = <<>> /\ translated_sentences = <<>> /\ zipped_regions = <<>>
    /\ ocr_regions = <<>>
    /\ NoWalk
    /\ NoSocket
    /\ NoPoll

Next == Engine

Spec == Init /\ [][Next]_vars

\* The SyncServer: translation_params handed to listen (line 738), the logger
\* hook as the only progress hook (lines 71, 737-768), one request served.
ServerParams ==
    [retries : {0}, upscale_ratio : {0}, revert_upscaling : {FALSE},
     target_lang : {"ENG"},
     uppercase : {FALSE}, lowercase : {FALSE}, filter_text : {None}, filter_trans : {None},
     manual : {FALSE},
     size : {"M"}, translator : {"google"}, target_language : {"CHS"},
     detector : {"default"}, direction : {"auto"}, inpainter : {"lama"}, ocr : {"48px"}]

InitAPI ==
    /\ pc = "waiting"
    /\ image = None
    /\ params = NoParams
    /\ ignore_errors \in BOOLEAN
    /\ progress_hooks = <<logger_hook>>
    /\ ph_index = 0 /\ deliveries = <<>>
    /\ ctx = NoContext
    /\ attempts = 0
    /\ exc = None
    /\ log = <<>>
    /\ runs = 0 /\ prepares = 0 /\ failures = 0 /\ prep_failures = 0
    /\ error_events = 0 /\ swallowed = 0
    /\ self_params \in ServerParams
    /\ endpoint = None
    /\ req = NoRequest
    /\ reply = NoReply
    /\ handlers = <<>> /\ heap = <<>>
    /\ queries = <<>> /\ translated_sentences = <<>> /\ zipped_regions = <<>>
    /\ ocr_regions = <<>>
    /\ NoWalk
    /\ NoSocket
    /\ NoPoll

NextAPI == api_request \/ Engine \/ api_reply

SpecAPI == InitAPI /\ [][NextAPI]_vars

\* The FileWalker: translate_path called on a directory of MaxFiles files by
\* the command line, with one attempt per file and no extra progress hook
WalkParams ==
    [retries : {0}, upscale_ratio : {0}, revert_upscaling : {FALSE},
     target_lang : {"ENG"},
     uppercase : {FALSE}, lowercase : {FALSE}, filter_text : {None}, filter_trans : {None},
     manual : {FALSE}]

InitWalk ==
    /\ pc = "path"
    /\ image = None
    /\ params \in WalkParams
    /\ ignore_errors \in BOOLEAN
    /\ progress_hooks = <<logger_hook>>
    /\ ph_index = 0 /\ deliveries = <<>>
    /\ ctx = NoContext
    /\ attempts = 0
    /\ exc = None
    /\ log = <<>>
    /\ runs = 0 /\ prepares = 0 /\ failures = 0 /\ prep_failures = 0
    /\ error_events = 0 /\ swallowed = 0
    /\ self_params = NoParams
    /\ endpoint = None
    /\ req = NoRequest
    /\ reply = NoReply
    /\ handlers = <<>> /\ heap = <<>>
    /\ queries = <<>> /\ translated_sentences = <<>> /\ zipped_regions = <<>>
    /\ ocr_regions = <<>>
    /\ tree \in Trees
    /\ dest_files \in SUBSET (1..MaxFiles)
    /\ existing = {}
    /\ file_index = 0
    /\ translated_count = 0
    /\ opened = <<>>
    /\ written = <<>>
    /\ passes = 0
    /\ NoSocket
    /\ NoPoll

NextWalk == FileWalker \/ Engine

SpecWalk == InitWalk /\ [][NextWalk]_vars

\* The SocketWorker: listen() with the server-configured defaults, the
\* logger hook and its own sync_state hook (lines 71, 621)
InitWS ==
    /\ pc = "connect"
    /\ image = None
    /\ params = NoParams
    /\ ignore_errors \in BOOLEAN
    /\ progress_hooks = <<logger_hook, ws_sync_state_hook>>
    /\ ph_index = 0 /\ deliveries = <<>>
    /\ ctx = NoContext
    /\ attempts = 0
    /\ exc = None
    /\ log = <<>>
    /\ runs = 0 /\ prepares = 0 /\ failures = 0 /\ prep_failures = 0
    /\ error_events = 0 /\ swallowed = 0
    /\ self_params \in WalkParams
    /\ endpoint = None
    /\ req = NoRequest
    /\ reply = NoReply
    /\ handlers = <<>> /\ heap = <<>>
    /\ queries = <<>> /\ translated_sentences = <<>> /\ zipped_regions = <<>>
    /\ ocr_regions = <<>>
    /\ NoWalk
    /\ NoSocket
    /\ NoPoll

NextWS == SocketWorker \/ Engine

SpecWS == InitWS /\ [][NextWS]_vars

\* The PollWorker translating the image of one task: the translator with the
\* logger hook and its sync_state hook (lines 71, 522)
WebParams ==
    [retries : {0, MaxRetries}, upscale_ratio : {0}, revert_upscaling : {FALSE},
     target_lang : {"ENG"},
     uppercase : {FALSE}, lowercase : {FALSE}, filter_text : {None}, filter_trans : {None},
     manual : BOOLEAN]

InitWeb ==
    /\ pc = "idle"
    /\ image \in Images \ Pages
    /\ params \in WebParams
    /\ ignore_errors \in BOOLEAN
    /\ progress_hooks = <<logger_hook, web_sync_state_hook>>
    /\ ph_index = 0 /\ deliveries = <<>>
    /\ ctx = NoContext
    /\ attempts = 0
    /\ exc = None
    /\ log = <<>>
    /\ runs = 0 /\ prepares = 0 /\ failures = 0 /\ prep_failures = 0
    /\ error_events = 0 /\ swallowed = 0
    /\ self_params = NoParams
    /\ endpoint = None
    /\ req = NoRequest
    /\ reply = NoReply
    /\ handlers = <<>> /\ heap = <<>>
    /\ queries = <<>> /\ translated_sentences = <<>> /\ zipped_regions = <<>>
    /\ ocr_regions = <<>>
    /\ NoWalk
    /\ NoSocket
    /\ NoPoll

NextWeb == EngineWeb

SpecWeb == InitWeb /\ [][NextWeb]_vars

\* the event loop runs the coroutine, and time passes while it sleeps
FairSpecWeb == SpecWeb /\ WF_vars(NextWeb)

\* The sync_state hook of a PollWorker called for the progress events of a
\* task
InitSync ==
    /\ pc = "hook_idle"
    /\ image = None
    /\ params = NoParams
    /\ ignore_errors = TRUE
    /\ progress_hooks = <<logger_hook, web_sync_state_hook>>
    /\ ph_index = 0 /\ deliveries = <<>>
    /\ ctx = NoContext
    /\ attempts = 0
    /\ exc = None
    /\ log = <<>>
    /\ runs = 0 /\ prepares = 0 /\ failures = 0 /\ prep_failures = 0
    /\ error_events = 0 /\ swallowed = 0
    /\ self_params = NoParams
    /\ endpoint = None
    /\ req = NoRequest
    /\ reply = NoReply
    /\ handlers = <<>> /\ heap = <<>>
    /\ queries = <<>> /\ translated_sentences = <<>> /\ zipped_regions = <<>>
    /\ ocr_regions = <<>>
    /\ NoWalk
    /\ websocket = "none"
    /\ connections = 0
    /\ task = NoTask
    /\ task_id \in 1..MaxTasks
    /\ tasks_read = 0
    /\ output = "unset"
    /\ sent = <<>>
    /\ ws_errors = <<>>
    /\ msg = None
    /\ statuses = <<>>
    /\ NoPoll

NextSync == sync_state_call \/ sync_state_post

SpecSync == InitSync /\ [][NextSync]_vars

\* every step of translate() is eventually taken: the event loop runs the
\* coroutine until it returns or raises
FairSpec == Spec /\ WF_vars(Next)

-----------------------------------------------------------------------------
(* Properties of the engine (specifications Spec and FairSpec)             *)

Dispatched(stage) == Call(stage) \in Range(log)
Broadcast(state, finished) == Ev(state, finished) \in Range(log)
Done == pc \in {"returned", "raised"}
LaterStages == {"ocr", "translation", "mask_refinement", "inpainting", "rendering"}

\* the detection of the current attempt returned an empty list of regions
DetectedNoRegions ==
    /\ Ret("detection") \in Range(log)
    /\ ~(Ret("ocr") \in Range(log))
    /\ ctx.text_regions = <<>>

\* C1 as stated: when detection yields zero regions, translate returns a
\* Context whose result equals the original input image.
C1_ResultIsInputImage ==
    (pc = "returned" /\ DetectedNoRegions) => ctx.result = ctx.input

\* C1 amended: in the attempt in which detection yields zero regions the
\* Context keeps result = None, input = the original image and an empty
\* text_regions list, and no OCR, translation, mask-refinement, inpainting or
\* rendering dispatch occurs in that attempt; translate does not raise.
C1_NoRegionsReturnsEarly ==
    DetectedNoRegions =>
        /\ ctx.result = None
        /\ ctx.input = image
        /\ \A st \in LaterStages : ~Dispatched(st)
        /\ pc \in {"ocr", "except", "returned"}
        /\ (pc = "except" => exc = "TranslationInterrupt")

C1_Witness ==
    /\ pc = "returned"
    /\ DetectedNoRegions
    /\ Broadcast("skip-no-regions", TRUE)
    /\ ctx.upscaled = "upscaled"

\* C2: every attempt of the retry loop starts from a Context equal to the
\* one freshly built from the original input and options.
C2_FreshContextEachAttempt ==
    pc = "try" => ctx = Context(image, params)

\* C3: with retries >= 0 the stage sequence (and the preparation before it)
\* is entered at most retries + 1 times, and the call terminates.
C3_AtMostRetriesPlusOneAttempts ==
    /\ [](params.retries >= 0 =>
            /\ runs <= params.retries + 1
            /\ prepares <= params.retries + 1)
    /\ (params.retries >= 0 => <>Done)

C3_Witness ==
    /\ params.retries = MaxRetries
    /\ runs = params.retries + 1
    /\ failures = params.retries + 1
    /\ Done

\* C4: an interruption raised by the hook at the 'ocr' event is taken by the
\* except TranslationInterrupt clause: no error event is broadcast for it, no
\* further attempt or dispatch follows it, and translate returns the Context;
\* when no stage failed before, the stage sequence was entered exactly once.
HookAtOcr == interrupt_hook("ocr", FALSE) \in Range(progress_hooks)

C4_InterruptNeverRetries ==
    /\ [](HookAtOcr =>
            /\ ~Dispatched("ocr")
            /\ pc = "raised" => exc # "TranslationInterrupt"
            /\ exc = "TranslationInterrupt" =>
                  /\ pc \in {"except", "returned"}
                  /\ log[Len(log)] = Ev("ocr", FALSE)
                  /\ error_events = failures
                  /\ prepares = attempts + 1
                  /\ (failures = 0 => runs = 1 /\ prepares = 1 /\ error_events = 0))
    /\ [][(HookAtOcr /\ exc = "TranslationInterrupt") =>
            /\ pc' = "returned"
            /\ UNCHANGED <<ctx, log, attempts, counters>>]_vars

C4_Witness ==
    /\ HookAtOcr
    /\ pc = "returned"
    /\ exc = "TranslationInterrupt"
    /\ params.retries = -1
    /\ ~ignore_errors
    /\ runs = 1
    /\ error_events = 0

\* C5: translate raises if and only if ignore_errors is unset and the failed
\* attempt was attempt number retries + 1; otherwise the exception is logged
\* and swallowed, and with ignore_errors set translate returns the Context.
C5_RaiseIffBudgetExhausted ==
    /\ pc = "raised" =>
          /\ ~ignore_errors
          /\ params.retries >= 0
          /\ attempts = params.retries
          /\ exc \in {"Exception", "LanguageUnsupportedException"}
    /\ (pc = "returned" /\ ~ignore_errors /\ params.retries >= 0) =>
          failures <= params.retries
    /\ swallowed
         + (IF pc \in {"except", "raised"} /\ exc # "TranslationInterrupt" THEN 1 ELSE 0)
       = failures

\* C6: a failure of a prepare_* call propagates at once: it is raised out of
\* translate, no second preparation is attempted and no stage runs.
C6_PrepareFailurePropagates ==
    prep_failures > 0 =>
        /\ pc \in {"except", "raised"}
        /\ prepares = 1
        /\ runs = 0

\* the translation dispatch of the current attempt returned
TranslationReturned == Ret("translation") \in Range(log)

Occurrences(entry) == Cardinality({k \in DOMAIN log : log[k] = entry})

\* C17 as stated: the texts of all regions are sent in region order in one
\* dispatch, and the translation stored on region i is the i-th element of
\* the dispatch result.
C17_TranslationIsIthElement ==
    TranslationReturned =>
        /\ queries = get_texts(zipped_regions)
        /\ Occurrences(Call("translation")) = 1
        /\ Len(translated_sentences) = Len(zipped_regions)
        /\ \A i \in DOMAIN zipped_regions :
              zipped_regions[i].translation = translated_sentences[i]

\* C17 amended: the texts of all regions are sent in region order in one
\* dispatch, and the translation stored on region i equals the i-th element
\* of the dispatch result up to letter case (and equals it when neither
\* uppercase nor lowercase is set); the regions kept by the filter carry
\* these translations.
C17_TranslationsByPosition ==
    TranslationReturned =>
        /\ queries = get_texts(zipped_regions)
        /\ Occurrences(Call("translation")) = 1
        /\ Len(translated_sentences) = Len(zipped_regions)
        /\ \A i \in DOMAIN zipped_regions :
              /\ zipped_regions[i].id > 0
              /\ upper(zipped_regions[i].translation) = upper(translated_sentences[i])
              /\ (~ctx.uppercase /\ ~ctx.lowercase) =>
                     zipped_regions[i].translation = translated_sentences[i]
        /\ \A i, j \in DOMAIN zipped_regions :
              zipped_regions[i].id = zipped_regions[j].id => i = j
        /\ Range(ctx.text_regions) \subseteq Range(zipped_regions)

C17_Witness ==
    /\ TranslationReturned
    /\ ctx.uppercase
    /\ Len(zipped_regions) = 2
    /\ translated_sentences = <<"", "Hello">>
    /\ zipped_regions[2].translation = "HELLO"
    /\ Len(ctx.text_regions) = 1

\* C18: the post-OCR filter applied to the list it returned, and the
\* post-translation filter applied to the list it returned, return that list
\* unchanged.
C18_FiltersIdempotent ==
    /\ pc = "translate" => filter_ocr(ctx, ctx.text_regions) = ctx.text_regions
    /\ pc = "mask" =>
          /\ ctx.text_regions = filter_trans(ctx, zipped_regions)
          /\ filter_trans(ctx, ctx.text_regions) = ctx.text_regions

C18_Witness ==
    /\ pc = "mask"
    /\ ctx.filter_trans = "Hello"
    /\ ctx.lowercase
    /\ Len(zipped_regions) = 2
    /\ Len(ctx.text_regions) = 1

ErrorEvents == {"error", "error-lang"}

\* C19: every exception of a prepare or dispatch call other than
\* TranslationInterrupt is followed by exactly one terminal error event,
\* 'error-lang' for LanguageUnsupportedException and 'error' otherwise,
\* broadcast before the exception is re-raised or swallowed; no error event
\* is broadcast otherwise.
C19_OneErrorEventPerException ==
    /\ [](/\ failures = error_events
                 + (IF pc = "except" /\ exc # "TranslationInterrupt" THEN 1 ELSE 0)
          /\ error_events = swallowed + (IF pc = "raised" THEN 1 ELSE 0)
          /\ Cardinality({k \in DOMAIN log : log[k].k = "event" /\ log[k].s \in ErrorEvents})
                <= 1)
    /\ [][(pc = "except" /\ exc # "TranslationInterrupt") =>
            /\ log' = Append(log, Ev(IF exc = "LanguageUnsupportedException"
                                     THEN "error-lang" ELSE "error", TRUE))
            /\ error_events' = error_events + 1]_vars
    /\ [][error_events' # error_events =>
            pc = "except" /\ exc # "TranslationInterrupt"]_vars

C19_Witness ==
    /\ pc = "raised"
    /\ exc = "LanguageUnsupportedException"
    /\ swallowed = 1
    /\ error_events = 2
    /\ log[Len(log)] = Ev("error-lang", TRUE)

EarlyEvents == {"skip-no-regions", "skip-no-text", "error-translating"}

\* the stage whose empty outcome an early-termination event reports, and
\* the dispatch that would have followed it
EarlyAfter(e) ==
    CASE e = "skip-no-regions" -> "detection"
      [] e = "skip-no-text" -> "ocr"
      [] e = "error-translating" -> "translation"

\* C20: an empty region list after detection, after the post-OCR filter or
\* after the post-translation filter is reported by exactly one terminal event
\* ('skip-no-regions', 'skip-no-text', 'error-translating'); after it nothing
\* is dispatched, no error event is broadcast, no attempt is started and
\* translate returns the Context without raising.
C20_EarlyTerminationIsNoError ==
    /\ [](\A e \in EarlyEvents :
            Broadcast(e, TRUE) =>
                /\ log[Len(log)] = Ev(e, TRUE)
                /\ Occurrences(Ev(e, TRUE)) = 1
                /\ log[Len(log) - 1] = Ret(EarlyAfter(e))
                /\ ctx.text_regions = <<>>
                /\ ctx.result = None
                /\ \A x \in ErrorEvents : ~Broadcast(x, TRUE)
                /\ pc \in {"except", "returned"}
                /\ pc = "except" => exc = "TranslationInterrupt")
    /\ [][(\E e \in EarlyEvents : Broadcast(e, TRUE)) =>
            /\ pc' = "returned"
            /\ UNCHANGED <<ctx, log, attempts, counters>>]_vars
    /\ [][(pc \in {"ocr", "translate", "mask"} /\ ctx.text_regions = <<>>) =>
            \E e \in EarlyEvents : log' = Append(log, Ev(e, TRUE))]_vars

C20_Witness ==
    /\ pc = "returned"
    /\ Broadcast("error-translating", TRUE)
    /\ exc = None
    /\ params.retries = 1
    /\ attempts = 0
    /\ Len(zipped_regions) = 2

-----------------------------------------------------------------------------
(* Properties of the SyncServer (specification SpecAPI)                    *)

Handled == req.kind = "request"
ContentTypeOk == req.content_type \in {"application/json", "multipart/form-data"}
Provided(r) ==
    (IF r.image THEN 1 ELSE 0) + (IF r.base64Images THEN 1 ELSE 0) + (IF r.url THEN 1 ELSE 0)

\* the request was answered without a call of translate
NotInvoked == pc = "replied" /\ prepares = 0
Invoked == Handled /\ ~NotInvoked
Rejected422 == NotInvoked /\ reply.http = 422 /\ reply.status = 422

\* C7: a /get_text run dispatches no translation and a /translate run
\* dispatches no inpainting; an /inpaint_translate run goes on through
\* inpainting.
C7_EndpointsStopAtTheirStage ==
    /\ endpoint = "/get_text" => ~Dispatched("translation")
    /\ endpoint = "/translate" => ~Dispatched("inpainting")

\* C8: a request (of an accepted content type) with none or with more than
\* one of image, base64Images and url is answered with HTTP 422 and translate
\* is not called for it.
C8_ExactlyOneInputOrRejected ==
    (Handled /\ ContentTypeOk /\ Provided(req) # 1) => Rejected422

\* a value belongs to the option set of its field, in the letter case the
\* field is compared in
InOptionSet(field, a) ==
    IF field \in {"size", "target_language"}
    THEN upper(a) \in OptionSet(field)
    ELSE lower(a) \in OptionSet(field)

\* a request of an accepted content type whose only input is a decodable
\* image within the size limit
GoodImageRequest ==
    /\ Handled
    /\ ContentTypeOk
    /\ Provided(req) = 1
    /\ req.url => req.url_status = 200
    /\ req.content.decodable
    /\ req.content.w * req.content.h <= 8000 * 8000

\* C9: a selector value inside the option set of its field is accepted and
\* merged over the defaults; a value outside it is answered with 422 before
\* translate is called.
C9_SelectorsValidated ==
    GoodImageRequest =>
        \A f \in SelectorFields :
            req.selectors[f] # None =>
                IF InOptionSet(f, req.selectors[f])
                THEN Invoked /\ params[f] = req.selectors[f]
                ELSE Rejected422

\* C10: a request that passes the schema and supplies exactly one decodable
\* image is answered with 422, without a call of translate, when
\* width * height > 8000 * 8000, and reaches translate with that image
\* otherwise.
C10_PixelAreaCeiling ==
    ( /\ Handled
      /\ ContentTypeOk
      /\ ~load_raises(req.selectors)
      /\ Provided(req) = 1
      /\ req.url => req.url_status = 200
      /\ req.content.decodable ) =>
        IF req.content.w * req.content.h > 8000 * 8000
        THEN Rejected422
        ELSE Invoked /\ image \in Images /\ ctx.input \in {None, image}

C10_Witness ==
    /\ Handled
    /\ ContentTypeOk
    /\ ~load_raises(req.selectors)
    /\ req.image /\ ~req.base64Images /\ ~req.url
    /\ req.content = [decodable |-> TRUE, w |-> 8000, h |-> 8001]
    /\ Rejected422


-----------------------------------------------------------------------------
(* Properties of the FileWalker (specification SpecWalk)                   *)

\* translate is running for the file at file_index
InPipeline == pc \notin {"path", "walk", "path_returned", "path_raised"}

\* every image of the tree had its output when the running pass began
AllOutputsExisted == \A f \in DOMAIN tree : tree[f] = "image" => f \in existing

\* C14: in every directory walk of translate_path an input whose output path
\* existed when the walk began is not opened, not passed to the pipeline and
\* not written; a pass over a tree whose images all have their outputs
\* performs zero writes.
C14_ExistingOutputsSkipped ==
    /\ \A f \in existing : f \notin Range(opened) /\ f \notin Range(written)
    /\ InPipeline => file_index \notin existing
    /\ AllOutputsExisted => written = <<>> /\ ~InPipeline

C14_Witness ==
    /\ passes = 2
    /\ pc = "path_returned"
    /\ \A f \in DOMAIN tree : tree[f] = "image"
    /\ existing = DOMAIN tree
    /\ opened = <<>>
    /\ written = <<>>
    /\ translated_count = 0

\* C15: when translate raises for one file of a directory walk, only that
\* file is aborted: the files after it that are no '.thumb' file and have no
\* output yet are still processed by the same translate_path call.
C15_BatchContinuesAfterRaise ==
    pc = "path_raised" =>
        \A f \in (file_index + 1)..Len(tree) : tree[f] = "thumb" \/ path_exists(f)
-----------------------------------------------------------------------------
(* Properties of the SocketWorker (specification SpecWS)                   *)

\* the worker is between two tasks
BetweenTasks == pc \in {"connect", "recv"}

\* C11: when the translate call of a task returned a Context without a
\* result image, a finish_task frame has been sent for that task id whose
\* image is all-zero RGBA pixels of the width and height of the source image.
C11_TransparentPlaceholderSent ==
    (BetweenTasks /\ output = None) =>
        FinishTask(task.id, zeros_image(task.size.h, task.size.w)) \in Range(sent)

\* C12: an exception raised while a task is processed is logged and the
\* worker goes on reading frames of the same connection: it connects anew
\* only after the connection itself was lost.
C12_TaskExceptionKeepsConnection ==
    (pc = "connect" /\ connections > 0) => websocket = "closed"
-----------------------------------------------------------------------------
(* Properties of the PollWorker (specifications SpecSync and FairSpecWeb)  *)

\* sync_state was called and has returned
HookReturned == pc = "hook_idle" /\ hook_call # NoCall

\* all posts of the running call but the last one failed
OnlyLastMaySucceed == \A k \in 1..(Len(posts) - 1) : ~posts[k].ok

\* C13 as stated: every post carries (task_id, state, finished) with finished
\* equal to the terminal flag of the event; the hook returns from an event
\* with the flag set only after a post succeeded, and posts an event with the
\* flag unset at most once.
C13_UpdatesCarryTerminalFlag ==
    /\ \A k \in DOMAIN posts :
          posts[k] = Post(task_id, hook_call.state, hook_call.finished, posts[k].ok)
    /\ OnlyLastMaySucceed
    /\ HookReturned => Len(posts) >= 1
    /\ (HookReturned /\ hook_call.finished) => posts[Len(posts)].ok
    /\ ~hook_call.finished => Len(posts) <= 1

\* C13 amended: every post carries (task_id, state, flag) where flag is the
\* terminal flag of the event, except that the 'finished' event is sent with
\* flag false; the hook returns from an update with flag true only after a
\* post succeeded, and posts an update with flag false exactly once,
\* dropping it when that post fails.
C13_UpdatesCarrySentFlag ==
    LET flag == hook_call.finished /\ hook_call.state # "finished"
    IN  /\ \A k \in DOMAIN posts :
              posts[k] = Post(task_id, hook_call.state, flag, posts[k].ok)
        /\ OnlyLastMaySucceed
        /\ HookReturned => Len(posts) >= 1
        /\ (HookReturned /\ flag) => posts[Len(posts)].ok
        /\ ~flag => Len(posts) <= 1
        /\ (pc = "hook_loop" /\ posts # <<>>) => flag /\ ~posts[Len(posts)].ok

C13_Witness ==
    /\ HookReturned
    /\ hook_call = [state |-> "error", finished |-> TRUE]
    /\ Len(posts) = 3
    /\ ~posts[1].ok /\ ~posts[2].ok /\ posts[3].ok

Waiting == pc = "manual_wait"

\* C16: the manual-translation wait polls the coordinator until a result
\* arrives or WaitSeconds have elapsed; it is left at the first test after
\* that time, so it always ends, and when it ends by the time limit or by a
\* result of 'error' the stage returns None and the next step reports the
\* terminal event 'error-translating', after which translate returns.
C16_ManualWaitEnds ==
    /\ [](Waiting =>
            /\ ctx.manual
            /\ wait_until = WaitSeconds
            /\ now <= wait_until + PollStep)
    /\ [][(Waiting /\ (now >= wait_until \/ ret' = "error")) =>
            /\ pc' = "mask"
            /\ ctx'.text_regions = NoneRegions]_vars
    /\ [][(Waiting /\ now < wait_until /\ ret' = "pending" /\ pc' # "except") =>
            /\ Waiting'
            /\ now' > now]_vars
    /\ [][(pc = "mask" /\ ctx.text_regions = NoneRegions) =>
            /\ log' = Append(log, Ev("error-translating", TRUE))
            /\ pc' = "returned"
            /\ ctx' = ctx]_vars
    /\ (Waiting ~> ~Waiting)

C16_Witness ==
    /\ pc = "returned"
    /\ ctx.manual
    /\ ret = "pending"
    /\ now >= wait_until
    /\ ctx.text_regions = NoneRegions
    /\ Broadcast("error-translating", TRUE)

-----------------------------------------------------------------------------
(* Properties of the regions held by the Context                           *)

RegionIds(regions) == [i \in DOMAIN regions |-> regions[i].id]

RECURSIVE IsSubSeq(_, _)
\* s is an order-preserving sub-sequence of t
IsSubSeq(s, t) ==
    IF s = <<>> THEN TRUE
    ELSE IF t = <<>> THEN FALSE
    ELSE IF Head(s) = Head(t) THEN IsSubSeq(Tail(s), Tail(t))
    ELSE IsSubSeq(s, Tail(t))

\* this step is the return of the OCR stage or of the translation stage
\* (automatic or manual) into the stage sequence
FilterStageReturns ==
    \/ pc = "ocr" /\ pc' = "translate"
    \/ pc \in {"translate", "manual_wait"} /\ pc' = "mask"

\* C21: in every run text_regions is None until the detection of that run
\* completes, and the sequence of regions held after the OCR stage and
\* after the translation stage (automatic or manual) is an order-preserving
\* sub-sequence of the one held before that stage.
C21_RegionsOnlyRemoved ==
    [][ /\ pc' \in {"upscale", "detect"} => ctx'.text_regions = NoneRegions
        /\ FilterStageReturns =>
              /\ ctx'.text_regions # NoneRegions
              /\ IsSubSeq(RegionIds(ctx'.text_regions), RegionIds(ctx.text_regions)) ]_vars

-----------------------------------------------------------------------------
(* The region filters (specification SpecFilter): translate() on a page    *)
(* whose lettering includes empty, short, numeric and URL texts            *)

FilterParams ==
    [retries : {0}, upscale_ratio : {0},
     revert_upscaling : {FALSE}, target_lang : {"ENG"},
     uppercase : {FALSE}, lowercase : {FALSE},
     filter_text : {None, "hello"}, filter_trans : {None, "Hello"}, manual : {FALSE}]

InitFilter ==
    /\ pc = "idle"
    /\ image \in Pages
    /\ params \in FilterParams
    /\ ignore_errors \in BOOLEAN
    /\ progress_hooks = <<logger_hook>>
    /\ ph_index = 0 /\ deliveries = <<>>
    /\ ctx = NoContext
    /\ attempts = 0
    /\ exc = None
    /\ log = <<>>
    /\ runs = 0 /\ prepares = 0 /\ failures = 0 /\ prep_failures = 0
    /\ error_events = 0 /\ swallowed = 0
    /\ self_params = NoParams
    /\ endpoint = None
    /\ req = NoRequest
    /\ reply = NoReply
    /\ handlers = <<>> /\ heap = <<>>
    /\ queries = <<>> /\ translated_sentences = <<>> /\ zipped_regions = <<>>
    /\ ocr_regions = <<>>
    /\ NoWalk
    /\ NoSocket
    /\ NoPoll

NextFilter == Engine

SpecFilter == InitFilter /\ [][NextFilter]_vars

\* the recognized text passes the four tests of the post-OCR filter
SurvivesOcr(c, text) ==
    /\ ~isnumeric(text)
    /\ ~(c.filter_text # None /\ re_search(c.filter_text, text))
    /\ count_valuable_text(text) >= 2
    /\ ~is_url(text)

\* the translated text passes the three tests of the post-translation filter
SurvivesTranslation(c, translation) ==
    /\ ~isnumeric(translation)
    /\ ~(c.filter_trans # None /\ re_search(c.filter_trans, translation))
    /\ count_valuable_text(translation) >= 2

\* C22: a region survives the post-OCR filter iff its recognized text is not
\* purely numeric, does not match the exclusion pattern, has at least two
\* valuable characters and is not a URL; it survives the post-translation
\* filter iff its translated text is not purely numeric, does not match the
\* translation exclusion pattern and has at least two valuable characters;
\* every region that reaches the rendering stage has non-empty, non-numeric,
\* non-URL source text.
C22_FiltersKeepExactlyTheGoodRegions ==
    /\ pc = "translate" =>
          \A r \in Range(ocr_regions) :
              (r \in Range(ctx.text_regions)) <=> SurvivesOcr(ctx, r.text)
    /\ pc = "mask" =>
          \A r \in Range(zipped_regions) :
              (r \in Range(ctx.text_regions)) <=> SurvivesTranslation(ctx, r.translation)
    /\ pc \in {"mask", "inpaint", "render", "finish"} =>
          \A r \in Range(ctx.text_regions) :
              r.text # "" /\ ~isnumeric(r.text) /\ ~is_url(r.text)

\* rendering is reached with one of two recognized regions dropped as a URL
\* and the other one kept
C22_Witness ==
    /\ pc = "render"
    /\ Len(ocr_regions) = 2
    /\ Len(ctx.text_regions) = 1
    /\ \E r \in Range(ocr_regions) : is_url(r.text)

-----------------------------------------------------------------------------
(* Progress notification (specification SpecHooks): add_progress_hook and  *)
(* _report_progress, one action per await of a hook                        *)

\* at most MaxHooks hooks are registered, the logger hook included
MaxHooks == 3

\* the hooks a caller may register
HookSamples ==
    {interrupt_hook("ocr", FALSE), interrupt_hook("finished", TRUE), web_sync_state_hook}

\* one entry of deliveries: the call of hook number k was begun, returned
\* or raised
Delivery(k, ph, phase) == [k |-> k, ph |-> ph, phase |-> phase]

report_rest == <<image, params, ignore_errors, ctx, attempts, exc, log, counters, api_vars,
                 translation_vars, walk_vars, ws_vars, finished_flag, posts, now,
                 wait_until, ret>>

\* a loop that passes over every second hook
next_hook_skips_one(k) == k + 2

\* the for statement of line 348 takes the hooks in list order
next_hook(k) == k + 1

\* lines 344-345
add_progress_hook ==
    /\ pc = "report_idle"
    /\ Len(progress_hooks) < MaxHooks
    /\ \E ph \in HookSamples : progress_hooks' = Append(progress_hooks, ph)
    /\ UNCHANGED <<pc, ph_index, deliveries, hook_call, report_rest>>

\* line 347: _report_progress(state, finished) is called
report_progress_call ==
    /\ pc = "report_idle"
    /\ \E c \in ProgressCalls : hook_call' = c
    /\ ph_index' = next_hook(0)
    /\ deliveries' = <<>>
    /\ pc' = "report_loop"
    /\ UNCHANGED <<progress_hooks, report_rest>>

\* line 348-349: the loop is left, or the next hook is called and awaited
report_progress_next ==
    /\ pc = "report_loop"
    /\ IF ph_index > Len(progress_hooks)
       THEN /\ pc' = "report_idle"
            /\ ph_index' = 0
            /\ UNCHANGED deliveries
       ELSE /\ pc' = "hook_running"
            /\ deliveries' = Append(deliveries,
                                    Delivery(ph_index, progress_hooks[ph_index], "begun"))
            /\ UNCHANGED ph_index
    /\ UNCHANGED <<progress_hooks, hook_call, report_rest>>

\* line 349: the awaited hook returns, or raises out of _report_progress
hook_ends ==
    /\ pc = "hook_running"
    /\ IF hook_raises(progress_hooks[ph_index], hook_call.state, hook_call.finished)
       THEN /\ pc' = "report_idle"
            /\ ph_index' = 0
            /\ deliveries' = Append(deliveries,
                                    Delivery(ph_index, progress_hooks[ph_index], "raised"))
       ELSE /\ pc' = "report_loop"
            /\ ph_index' = next_hook(ph_index)
            /\ deliveries' = Append(deliveries,
                                    Delivery(ph_index, progress_hooks[ph_index], "returned"))
    /\ UNCHANGED <<progress_hooks, hook_call, report_rest>>

InitHooks ==
    /\ pc = "report_idle"
    /\ image = None
    /\ params = NoParams
    /\ ignore_errors = FALSE
    /\ progress_hooks = <<logger_hook>>
    /\ ph_index = 0 /\ deliveries = <<>>
    /\ ctx = NoContext
    /\ attempts = 0
    /\ exc = None
    /\ log = <<>>
    /\ runs = 0 /\ prepares = 0 /\ failures = 0 /\ prep_failures = 0
    /\ error_events = 0 /\ swallowed = 0
    /\ self_params = NoParams
    /\ endpoint = None
    /\ req = NoRequest
    /\ reply = NoReply
    /\ handlers = <<>> /\ heap = <<>>
    /\ queries = <<>> /\ translated_sentences = <<>> /\ zipped_regions = <<>>
    /\ ocr_regions = <<>>
    /\ NoWalk
    /\ NoSocket
    /\ NoPoll

NextHooks ==
    \/ add_progress_hook
    \/ report_progress_call
    \/ report_progress_next
    \/ hook_ends

SpecHooks == InitHooks /\ [][NextHooks]_vars

\* the calls made so far by the running notification are those of hooks
\* 1, 2, ... in list order, each begun only after the one before it ended,
\* and a hook that raised is the last one called
OneAtATimeInOrder ==
    \A i \in DOMAIN deliveries :
        /\ deliveries[i].k = (i + 1) \div 2
        /\ deliveries[i].k \in DOMAIN progress_hooks
        /\ deliveries[i].ph = progress_hooks[deliveries[i].k]
        /\ (i % 2 = 1) = (deliveries[i].phase = "begun")
        /\ deliveries[i].phase = "raised" => i = Len(deliveries)

\* C23: every progress notification awaits the registered hooks one at a
\* time in registration order, the logger hook first: hook k+1 is not
\* started before hook k has completed, and every registered hook receives
\* every event unless an earlier hook raised for that event.
C23_HooksAwaitedInOrder ==
    /\ [](progress_hooks[1] = logger_hook /\ OneAtATimeInOrder)
    /\ [][ (pc \in {"report_loop", "hook_running"} /\ pc' = "report_idle") =>
              \/ deliveries' # <<>> /\ deliveries'[Len(deliveries')].phase = "raised"
              \/ /\ Len(deliveries') = 2 * Len(progress_hooks)
                 /\ \A i \in DOMAIN deliveries' : deliveries'[i].phase # "raised" ]_vars
    /\ [][ progress_hooks' # progress_hooks =>
              \E ph \in HookSamples : progress_hooks' = Append(progress_hooks, ph) ]_vars

\* a notification returned after three registered hooks received the event
C23_Witness ==
    /\ pc = "report_idle"
    /\ Len(progress_hooks) = 3
    /\ Len(deliveries) = 6
    /\ deliveries[6] = Delivery(3, progress_hooks[3], "returned")

-----------------------------------------------------------------------------
(* Properties of the stage sequence of one attempt (specification Spec)    *)

StageOrder ==
    <<"upscaling", "detection", "ocr", "translation", "mask_refinement", "inpainting",
      "rendering">>

StageRank(stage) ==
    CASE stage = "upscaling" -> 1    [] stage = "detection" -> 2
      [] stage = "ocr" -> 3          [] stage = "translation" -> 4
      [] stage = "mask_refinement" -> 5
      [] stage = "inpainting" -> 6   [] stage = "rendering" -> 7

\* the progress event that announces a stage
StageEvent(stage) ==
    CASE stage = "translation" -> "translating"
      [] stage = "mask_refinement" -> "mask-generation"
      [] OTHER -> stage

\* the stages that every attempt reaching a later stage has gone through
UnconditionalStages == {"detection", "ocr", "translation", "inpainting", "rendering"}

CallAt(i) == log[i].k = "dispatch"

\* the stages dispatched in the running attempt, in the order of dispatch
Calls == SelectSeq(log, LAMBDA e : e.k = "dispatch")

StageWrites(stage, c) ==
    CASE stage = "upscaling" -> c.upscaled # None
      [] stage = "detection" -> c.text_regions # NoneRegions /\ c.mask_raw # None
      [] stage = "ocr" -> c.text_regions # NoneRegions
      [] stage = "translation" -> c.text_regions # NoneRegions
      [] stage = "mask_refinement" -> c.mask # None
      [] stage = "inpainting" -> c.img_inpainted # None
      [] stage = "rendering" -> c.img_rendered # None

\* translate returned because a hook raised TranslationInterrupt on the
\* non-terminal progress event of stage S
InterruptedAt(S) ==
    /\ pc = "returned"
    /\ exc = "TranslationInterrupt"
    /\ log # <<>>
    /\ log[Len(log)] = Ev(StageEvent(S), FALSE)

-----------------------------------------------------------------------------
(* The language of a SocketWorker task (specification SpecWS)              *)

\* translate is running, or has ended, for the task read last
TaskContextBuilt == pc \notin {"connect", "recv", "idle"}

\* C26: the target language carried by a new_task frame is the target_lang of
\* the Context of that task before the engine is invoked: it is the language
\* the translator is asked for and the target_lang assigned to every
\* translated region of that task.
C26_FrameLanguageIsTargetLang ==
    TaskContextBuilt =>
        /\ ctx.target_lang = task.target_language
        /\ \A i \in DOMAIN zipped_regions :
              zipped_regions[i].target_lang = task.target_language

-----------------------------------------------------------------------------
(* Concurrent SyncServer requests (specification SpecServe): the handler   *)
(* coroutines of aiohttp interleave at their awaits. Every value carries   *)
(* in `from` the requests whose data went into it.                         *)

MaxRequests == 2

Handlers == 1 .. MaxRequests

serve_rest == <<pc, image, params, ignore_errors, hook_vars, ctx, attempts, exc, log,
                counters, self_params, endpoint, req, reply, translation_vars, task_vars>>

\* the value of an attribute and the requests it was computed from
Attr(from, val) == [from |-> from, val |-> val]

\* the locals of a handler: its position, its reference to the Context that
\* its translate call constructed (0 before that), and its response
Handler(at, ref, resp) == [pc |-> at, ctx |-> ref, reply |-> resp]

NoHandler == Handler("waiting", 0, Attr({}, 0))

\* Context(**params) with input and result set, as constructed for request r
\* (lines 190, 203-204); touched holds the requests that read or wrote it
NewContext(r) ==
    [owner |-> r, touched |-> {r}, input |-> Attr({r}, "image"),
     text_regions |-> Attr({}, None), img_inpainted |-> Attr({}, None),
     result |-> Attr({}, None)]

\* one Context kept by the translator and used by every call
context_ref_shared(h) == 1

\* line 190 constructs a new object on every call of translate
context_ref(h) == Len(h) + 1

\* request r reads the attributes `reads` of Context o and assigns attr
stage_write(o, r, attr, reads, val) ==
    [o EXCEPT ![attr] = Attr({r} \cup UNION {o[a].from : a \in reads}, val),
              !.touched = @ \cup {r}]

\* lines 783-800: the body of the request is awaited and loaded
srv_err_handling(r) ==
    /\ handlers[r].pc = "waiting"
    /\ handlers' = [handlers EXCEPT ![r] = Handler("call", 0, @.reply)]
    /\ UNCHANGED <<heap, serve_rest>>

\* line 800 calls translate, lines 189-204
srv_translate(r) ==
    /\ handlers[r].pc = "call"
    /\ LET ref == context_ref(heap)
       IN  /\ heap' = IF ref > Len(heap) THEN Append(heap, NewContext(r))
                      ELSE [heap EXCEPT ![ref] = NewContext(r)]
           /\ handlers' = [handlers EXCEPT ![r] = Handler("detect", ref, @.reply)]
    /\ UNCHANGED serve_rest

\* a stage of _translate run on the Context the handler holds: the dispatch
\* returns one of vals, assigned to attr, or raises; with the default
\* ignore_errors = True of the server translate then returns the Context
srv_stage(r, at, attr, reads, vals, next) ==
    /\ handlers[r].pc = at
    /\ LET ref == handlers[r].ctx
       IN  \/ \E v \in vals :
                 /\ heap' = [heap EXCEPT ![ref] = stage_write(@, r, attr, reads, v)]
                 /\ handlers' = [handlers EXCEPT
                                    ![r].pc = IF v = "empty" THEN "format" ELSE next]
           \/ /\ heap' = [heap EXCEPT ![ref].touched = @ \cup {r}]
              /\ handlers' = [handlers EXCEPT ![r].pc = "format"]
    /\ UNCHANGED serve_rest

\* lines 289-298
srv_run_detection(r) ==
    srv_stage(r, "detect", "text_regions", {"input"}, {"empty", "regions"}, "ocr")

\* lines 300-304
srv_run_ocr(r) ==
    srv_stage(r, "ocr", "text_regions", {"input", "text_regions"}, {"empty", "regions"},
              "translate")

\* lines 306-311
srv_run_text_translation(r) ==
    srv_stage(r, "translate", "text_regions", {"text_regions"}, {"empty", "regions"},
              "inpaint")

\* lines 323-324
srv_run_inpainting(r) ==
    srv_stage(r, "inpaint", "img_inpainted", {"input", "text_regions"}, {"inpainted"},
              "render")

\* lines 329-333
srv_run_text_rendering(r) ==
    srv_stage(r, "render", "result", {"img_inpainted", "text_regions"}, {"rendered"},
              "format")

\* line 801 and format_translate (lines 813-840)
srv_format_translate(r) ==
    /\ handlers[r].pc = "format"
    /\ LET ref == handlers[r].ctx
           o == heap[ref]
           status == IF o.text_regions.val = None THEN 500
                     ELSE IF o.text_regions.val = "regions" /\ o.img_inpainted.val = None
                     THEN 500
                     ELSE 200
       IN  /\ handlers' = [handlers EXCEPT ![r] =
                  Handler("replied", ref,
                          Attr(o.text_regions.from \cup o.img_inpainted.from, status))]
           /\ heap' = [heap EXCEPT ![ref].touched = @ \cup {r}]
    /\ UNCHANGED serve_rest

InitServe ==
    /\ pc = "serving"
    /\ image = None
    /\ params = NoParams
    /\ ignore_errors = TRUE
    /\ progress_hooks = <<logger_hook>>
    /\ ph_index = 0 /\ deliveries = <<>>
    /\ ctx = NoContext
    /\ attempts = 0
    /\ exc = None
    /\ log = <<>>
    /\ runs = 0 /\ prepares = 0 /\ failures = 0 /\ prep_failures = 0
    /\ error_events = 0 /\ swallowed = 0
    /\ self_params \in ServerParams
    /\ endpoint = None
    /\ req = NoRequest
    /\ reply = NoReply
    /\ handlers = [r \in Handlers |-> NoHandler]
    /\ heap = <<>>
    /\ queries = <<>> /\ translated_sentences = <<>> /\ zipped_regions = <<>>
    /\ ocr_regions = <<>>
    /\ NoWalk
    /\ NoSocket
    /\ NoPoll

NextServe ==
    \/ \E r \in Handlers : srv_err_handling(r)
    \/ \E r \in Handlers : srv_translate(r)
    \/ \E r \in Handlers : srv_run_detection(r)
    \/ \E r \in Handlers : srv_run_ocr(r)
    \/ \E r \in Handlers : srv_run_text_translation(r)
    \/ \E r \in Handlers : srv_run_inpainting(r)
    \/ \E r \in Handlers : srv_run_text_rendering(r)
    \/ \E r \in Handlers : srv_format_translate(r)

SpecServe == InitServe /\ [][NextServe]_vars

ContextAttributes == {"input", "text_regions", "img_inpainted", "result"}

\* C27: concurrent SyncServer requests each run the pipeline on their own
\* Context: under every interleaving of the requests at suspension points,
\* no Context attribute written by one request's run is read or overwritten
\* by the run of another request, and each reply is built only from its own
\* request's Context.
C27_RequestsKeepTheirOwnContext ==
    /\ \A r1, r2 \in Handlers :
          (r1 # r2 /\ handlers[r1].ctx # 0) => handlers[r1].ctx # handlers[r2].ctx
    /\ \A r \in Handlers : handlers[r].ctx # 0 => heap[handlers[r].ctx].owner = r
    /\ \A i \in DOMAIN heap :
          /\ heap[i].touched \subseteq {heap[i].owner}
          /\ \A a \in ContextAttributes : heap[i][a].from \subseteq {heap[i].owner}
    /\ \A r \in Handlers : handlers[r].reply.from \subseteq {r}

\* request 1 was answered from its Context, constructed after the one of
\* request 2, while request 2 is still in the pipeline
C27_Witness ==
    /\ handlers[1].pc = "replied"
    /\ handlers[1].reply = Attr({1}, 200)
    /\ handlers[2].pc = "inpaint"
    /\ handlers[1].ctx > handlers[2].ctx
    /\ handlers[2].ctx > 0

-----------------------------------------------------------------------------
(* Interruption and the error handler (specification Spec)                 *)

\* C28: translate never lets the interruption signal escape to its caller:
\* an interruption raised by a hook on any progress event, the 'error' and
\* 'error-lang' events of the failure handler included, makes translate
\* return the Context normally.
C28_InterruptNeverEscapes ==
    exc = "TranslationInterrupt" => pc # "raised"

-----------------------------------------------------------------------------
(* Terminal progress events (specification Spec)                           *)

\* C29: within one attempt a progress event with terminal = true is the last
\* progress event of that attempt: after 'finished' or a terminal skip or
\* error event no further progress event is broadcast in that attempt, for
\* every option set, revert_upscaling included.
C29_TerminalEventIsLast ==
    \A i \in DOMAIN log :
        (log[i].k = "event" /\ log[i].f) =>
            \A j \in DOMAIN log : j > i => log[j].k # "event"

-----------------------------------------------------------------------------
(* PollWorker tasks (specification SpecPoll): MangaTranslatorWeb.listen    *)
(* takes a task, translate_path and _translate_file translate input.png   *)
(* of the task and save final.png                                          *)

poll_rest == <<ignore_errors, hook_vars, api_vars, tree, dest_files, existing, file_index,
               translated_count, opened, passes, websocket, connections, task, output,
               sent, ws_errors, msg, statuses, web_vars>>

\* one iteration of the loop of line 524 up to the call of translate:
\* _get_task returns a task (lines 525-544), translate_path takes the file
\* branch (lines 103-117) and _translate_file opens the image (lines 148-153)
web_get_task ==
    /\ pc = "poll"
    /\ tasks_read < MaxTasks
    /\ tasks_read' = tasks_read + 1
    /\ task_id' = tasks_read + 1
    /\ \E p \in WebParams : params' = p
    /\ pc' = "idle"
    /\ image' = "image"
    /\ exc' = None
    /\ log' = <<>>
    /\ runs' = 0 /\ prepares' = 0 /\ failures' = 0
    /\ prep_failures' = 0 /\ error_events' = 0 /\ swallowed' = 0
    /\ queries' = <<>>
    /\ translated_sentences' = <<>>
    /\ zipped_regions' = <<>>
    /\ ocr_regions' = <<>>
    /\ written' = <<>>
    /\ UNCHANGED <<ctx, attempts, poll_rest>>

\* lines 153-164 and 545-551: translate returned or raised; what it raises
\* is caught neither by _translate_file and translate_path nor by listen
web_translate_file_end ==
    /\ pc \in {"returned", "raised"}
    /\ IF pc = "raised"
       THEN /\ pc' = "listen_raised"
            /\ UNCHANGED <<task_id, written, log>>
       ELSE /\ pc' = "poll"
            /\ task_id' = 0
            /\ IF file_result(ctx) = None
               THEN UNCHANGED <<written, log>>
               ELSE /\ written' = Append(written, task_id)
                    /\ log' = Append(log, Ev("saved", TRUE))
    /\ UNCHANGED <<tasks_read, params, image, exc, counters, translation_vars, ctx,
                   attempts, poll_rest>>

InitPoll ==
    /\ pc = "poll"
    /\ image = None
    /\ params = NoParams
    /\ ignore_errors \in BOOLEAN
    /\ progress_hooks = <<logger_hook, web_sync_state_hook>>
    /\ ph_index = 0 /\ deliveries = <<>>
    /\ ctx = NoContext
    /\ attempts = 0
    /\ exc = None
    /\ log = <<>>
    /\ runs = 0 /\ prepares = 0 /\ failures = 0 /\ prep_failures = 0
    /\ error_events = 0 /\ swallowed = 0
    /\ self_params = NoParams
    /\ endpoint = None
    /\ req = NoRequest
    /\ reply = NoReply
    /\ handlers = <<>> /\ heap = <<>>
    /\ queries = <<>> /\ translated_sentences = <<>> /\ zipped_regions = <<>>
    /\ ocr_regions = <<>>
    /\ NoWalk
    /\ NoSocket
    /\ NoPoll

NextPoll ==
    \/ web_get_task
    \/ web_translate_file_end
    \/ EngineWeb

SpecPoll == InitPoll /\ [][NextPoll]_vars

\* sync_state has pushed an update with finished = true for an event of the
\* running attempt: its post is repeated until it returns (lines 506-520)
FinishedUpdatePushed ==
    \E i \in DOMAIN log : log[i].k = "event" /\ sent_flag(log[i].s, log[i].f)

\* C30: for every PollWorker task for which an output file is written, no
\* update with finished = true is pushed to the coordinator for that task
\* before the output file has been written, whatever outcome the pipeline
\* run had (full result, no regions, no text).
C30_NoFinishedUpdateBeforeFile ==
    [][written' # written /\ written' # <<>> => ~FinishedUpdatePushed]_vars

-----------------------------------------------------------------------------
(* The frames of the SocketWorker (specification SpecWS)                   *)

\* translate (line 652) is running for the task read last
PipelineRunning == pc \notin {"connect", "recv", "returned", "raised"}

\* the frames sent in this step: status frames by sync_state, a finish_task
\* frame by line 667
StatusesSent == SubSeq(statuses', Len(statuses) + 1, Len(statuses'))

FinishSent == SubSeq(sent', Len(sent) + 1, Len(sent'))

\* this step reads a frame
FrameRead == pc = "recv" /\ (msg' # msg \/ tasks_read' # tasks_read)

\* at most one finish_task frame has been sent for every new_task frame read
OneFinishPerTask ==
    /\ \A i \in DOMAIN sent : sent[i].kind = "finish_task" /\ sent[i].id \in 1..tasks_read
    /\ \A i, j \in DOMAIN sent : sent[i].id = sent[j].id => i = j

\* C31: SocketWorker handles inbound frames one at a time: for every new-task
\* frame at most one finish_task frame is sent, it carries that task's id and
\* is sent after every status frame of that task, every status frame carries
\* the id of the task whose pipeline is currently running, and frames of any
\* kind other than new-task cause no send and no pipeline run.
C31_FramesOneAtATime ==
    /\ []OneFinishPerTask
    /\ [][/\ (msg' # msg \/ tasks_read' # tasks_read) => pc = "recv"
          /\ \A i \in DOMAIN FinishSent :
                /\ FinishSent[i].id = task.id
                /\ msg = "new_task"
                /\ pc = "returned"
          /\ statuses' # statuses /\ statuses' # <<>> =>
                /\ Len(statuses') > Len(statuses)
                /\ SubSeq(statuses', 1, Len(statuses)) = statuses
                /\ PipelineRunning
                /\ msg = "new_task"
                /\ \A i \in DOMAIN StatusesSent :
                      /\ StatusesSent[i].kind = "status"
                      /\ StatusesSent[i].id = task.id
                      /\ StatusesSent[i].id = task_id
                      /\ \A j \in DOMAIN sent : sent[j].id # StatusesSent[i].id
          /\ FrameRead /\ msg' # "new_task" =>
                /\ sent' = sent
                /\ statuses' = statuses
                /\ pc' = "recv"
                /\ runs' = runs
                /\ log' = log]_vars

\* a task was translated with status frames and its finish_task frame, an
\* earlier task got its finish_task frame too, and a frame of another kind
\* was read after that
C31_Witness ==
    /\ pc = "recv"
    /\ msg \in MessageKinds \ {"new_task"}
    /\ tasks_read = MaxTasks
    /\ Len(sent) = MaxTasks
    /\ sent[Len(sent)].id = task.id
    /\ Len(statuses) >= 5
    /\ \A i \in DOMAIN statuses : statuses[i].id = task.id

====
